---- MODULE Spec2Model ----
(***************************************************************************)
(* Multi-cursor engine: Cursor (oneCursor.ts), CursorCollection and the    *)
(* collaborators they consume (document, view model, coordinate            *)
(* converter).  Lists are TLA+ sequences (1-based); every index the code   *)
(* keeps (lastAddedCursorIndex, SortedCursor.index, sortedCursorIndex) is  *)
(* kept 0-based as in the code, so element i of the code is seq[i + 1].    *)
(***************************************************************************)
EXTENDS Integers, Sequences, FiniteSets, TLC

VARIABLES
    cursors,                \* CursorCollection.cursors
    lastAddedCursorIndex,   \* CursorCollection.lastAddedCursorIndex
    mergeOverlapping,       \* context.cursorConfig.multiCursorMergeOverlapping
    trackedRanges,          \* the document's tracked-range table: id -> Range
    op,                     \* the operation that produced this state
    arg,                    \* the list handed to the last setStates, else << >>
    pre,                    \* the collection as the last operation found it
    disposed,               \* identities of the cursors the last operation disposed
    mergeLog,               \* the merges of the last normalize(), in order
    lineLength,             \* the document: number of characters of line 2
    layoutChanged,          \* the document was edited since the cursors were last set
    loop,                   \* normalize(): the state of its loop while it runs, else Null
    atlas,                  \* ViewLinesGpu.atlas.pages
    gpu                     \* ViewLinesGpu: uploaded versions, glyph buffers, atlas texture

vars == <<cursors, lastAddedCursorIndex, mergeOverlapping, trackedRanges,
          op, arg, pre, disposed, mergeLog, lineLength, layoutChanged,
          loop, atlas, gpu>>

(***************************************************************************)
(* Bounds and the document fixture.                                        *)
(***************************************************************************)
\* The largest number of cursors a setStates call asks for.
MaxCursors == 3

\* The longest line 2 an edit of the document produces.
MaxLineLength == 3

\* Length of each line of the document: line 1 is empty, line 2 holds
\* lineLength characters ("ab" until the document is edited).
LineLengths == <<0, lineLength>>

\* The view wraps after one character: a line 2 of "ab" is shown as the two
\* view lines "a" and "b".  WrappedViews[n] is the view of a line 2 of n
\* characters, as the list of <<model line, first offset, length>>.
WrappedViews ==
    [n \in 0..(MaxLineLength + 1) |->
        IF n = 0 THEN << <<1, 0, 0>>, <<2, 0, 0>> >>
        ELSE << <<1, 0, 0>> >> \o [k \in 1..n |-> <<2, k - 1, 1>>]]

ViewLines == WrappedViews[lineLength]

\* null as a tracked-range id; null as a state or a range.
NullId == 0

Null == [null |-> TRUE]

(***************************************************************************)
(* Coordinate primitives: Position, Range, Selection.                      *)
(***************************************************************************)
Position(l, c) == [lineNumber |-> l, column |-> c]

\* Position.compare(a, b) < 0
isBefore(a, b) ==
    \/ a.lineNumber < b.lineNumber
    \/ a.lineNumber = b.lineNumber /\ a.column < b.column

\* Position.isBeforeOrEqual
isBeforeOrEqual(a, b) ==
    \/ a.lineNumber < b.lineNumber
    \/ a.lineNumber = b.lineNumber /\ a.column <= b.column

\* new Range(l1, c1, l2, c2): the constructor orders the two ends.
Range(l1, c1, l2, c2) ==
    IF l1 > l2 \/ (l1 = l2 /\ c1 > c2)
    THEN [startLineNumber |-> l2, startColumn |-> c2,
          endLineNumber |-> l1, endColumn |-> c1]
    ELSE [startLineNumber |-> l1, startColumn |-> c1,
          endLineNumber |-> l2, endColumn |-> c2]

\* Range.fromPositions(a, b)
fromPositions(a, b) == Range(a.lineNumber, a.column, b.lineNumber, b.column)

\* new Selection(selectionStartLine, selectionStartColumn, positionLine, positionColumn):
\* a Selection is a Range (the ordered ends) plus the anchor and the head.
Selection(sl, sc, pl, pc) ==
    IF sl > pl \/ (sl = pl /\ sc > pc)
    THEN [startLineNumber |-> pl, startColumn |-> pc,
          endLineNumber |-> sl, endColumn |-> sc,
          selectionStartLineNumber |-> sl, selectionStartColumn |-> sc,
          positionLineNumber |-> pl, positionColumn |-> pc]
    ELSE [startLineNumber |-> sl, startColumn |-> sc,
          endLineNumber |-> pl, endColumn |-> pc,
          selectionStartLineNumber |-> sl, selectionStartColumn |-> sc,
          positionLineNumber |-> pl, positionColumn |-> pc]

\* Selection.fromPositions(start, end)
selectionFromPositions(a, b) ==
    Selection(a.lineNumber, a.column, b.lineNumber, b.column)

\* The Range part of a Range or Selection.
asRange(s) ==
    [startLineNumber |-> s.startLineNumber, startColumn |-> s.startColumn,
     endLineNumber |-> s.endLineNumber, endColumn |-> s.endColumn]

\* Range.getStartPosition / getEndPosition
getStartPosition(s) == Position(s.startLineNumber, s.startColumn)

getEndPosition(s) == Position(s.endLineNumber, s.endColumn)

\* Selection.getSelectionStart / getPosition
getSelectionStart(s) == Position(s.selectionStartLineNumber, s.selectionStartColumn)

getPosition(s) == Position(s.positionLineNumber, s.positionColumn)

\* Range.isEmpty
isEmpty(s) == s.startLineNumber = s.endLineNumber /\ s.startColumn = s.endColumn

\* Range.equalsRange
equalsRange(a, b) ==
    /\ a.startLineNumber = b.startLineNumber
    /\ a.startColumn = b.startColumn
    /\ a.endLineNumber = b.endLineNumber
    /\ a.endColumn = b.endColumn

\* Selection.equalsSelection: the four selection coordinates agree.
equalsSelection(a, b) ==
    /\ a.selectionStartLineNumber = b.selectionStartLineNumber
    /\ a.selectionStartColumn = b.selectionStartColumn
    /\ a.positionLineNumber = b.positionLineNumber
    /\ a.positionColumn = b.positionColumn

\* Range.plusRange: the smallest range containing both.
plusRange(a, b) ==
    LET sa == getStartPosition(a)  sb == getStartPosition(b)
        ea == getEndPosition(a)    eb == getEndPosition(b)
        s == IF isBefore(sb, sa) THEN sb ELSE sa
        e == IF isBefore(ea, eb) THEN eb ELSE ea
    IN  fromPositions(s, e)

\* Range.compareRangesUsingStarts(a, b) as -1, 0 or 1.
compareRangesUsingStarts(a, b) ==
    LET ra == a  rb == b
    IN  IF ra.startLineNumber # rb.startLineNumber
        THEN (IF ra.startLineNumber < rb.startLineNumber THEN -1 ELSE 1)
        ELSE IF ra.startColumn # rb.startColumn
        THEN (IF ra.startColumn < rb.startColumn THEN -1 ELSE 1)
        ELSE IF ra.endLineNumber # rb.endLineNumber
        THEN (IF ra.endLineNumber < rb.endLineNumber THEN -1 ELSE 1)
        ELSE IF ra.endColumn # rb.endColumn
        THEN (IF ra.endColumn < rb.endColumn THEN -1 ELSE 1)
        ELSE 0

(***************************************************************************)
(* The document (ITextModel): line lengths and position validation.        *)
(***************************************************************************)
getLineCount == Len(LineLengths)

getLineMaxColumn(l) == LineLengths[l] + 1

\* ITextModel.validatePosition: clamp into the document.
validatePosition(p) ==
    IF p.lineNumber < 1 THEN Position(1, 1)
    ELSE IF p.lineNumber > getLineCount
    THEN Position(getLineCount, getLineMaxColumn(getLineCount))
    ELSE IF p.column <= 1 THEN Position(p.lineNumber, 1)
    ELSE IF p.column >= getLineMaxColumn(p.lineNumber)
    THEN Position(p.lineNumber, getLineMaxColumn(p.lineNumber))
    ELSE Position(p.lineNumber, p.column)

\* ITextModel.validateRange: both ends are clamped.
validateRange(r) ==
    fromPositions(validatePosition(getStartPosition(r)),
                  validatePosition(getEndPosition(r)))

\* ITextModel._setTrackedRange(id, newRange, stickiness): the id it returns.
\* A fresh id is the smallest one the table does not hold.
setTrackedRangeId(table, id, newRange) ==
    IF id = NullId \/ id \notin DOMAIN table
    THEN IF newRange = Null THEN NullId
         ELSE CHOOSE n \in 1..(Cardinality(DOMAIN table) + 1) :
                 /\ n \notin DOMAIN table
                 /\ \A m \in 1..(n - 1) : m \in DOMAIN table
    ELSE IF newRange = Null THEN NullId ELSE id

\* ITextModel._setTrackedRange(id, newRange, stickiness): the table it leaves.
setTrackedRangeTable(table, id, newRange) ==
    LET newId == setTrackedRangeId(table, id, newRange)
    IN  IF newRange = Null
        THEN [k \in (DOMAIN table) \ {id} |-> table[k]]
        ELSE [k \in (DOMAIN table) \cup {newId} |->
                 IF k = newId THEN asRange(newRange) ELSE table[k]]

\* ITextModel._getTrackedRange(id)
getTrackedRange(table, id) == table[id]

\* A tracked range of stickiness AlwaysGrowsWhenTypingAtEdges after one
\* character is inserted at column c of line 2: text typed at either edge
\* ends up inside the range.
trackedRangeAfterInsert(r, c) ==
    [startLineNumber |-> r.startLineNumber,
     startColumn |-> IF r.startLineNumber = 2 /\ r.startColumn > c
                     THEN r.startColumn + 1 ELSE r.startColumn,
     endLineNumber |-> r.endLineNumber,
     endColumn |-> IF r.endLineNumber = 2 /\ r.endColumn >= c
                   THEN r.endColumn + 1 ELSE r.endColumn]

\* A tracked range after the character at column c of line 2 is deleted.
trackedRangeAfterDelete(r, c) ==
    [startLineNumber |-> r.startLineNumber,
     startColumn |-> IF r.startLineNumber = 2 /\ r.startColumn > c
                     THEN r.startColumn - 1 ELSE r.startColumn,
     endLineNumber |-> r.endLineNumber,
     endColumn |-> IF r.endLineNumber = 2 /\ r.endColumn > c
                   THEN r.endColumn - 1 ELSE r.endColumn]

(***************************************************************************)
(* The view model and the coordinate converter.                            *)
(***************************************************************************)
getViewLineCount == Len(ViewLines)

toValidViewLineNumber(l) ==
    IF l < 1 THEN 1 ELSE IF l > getViewLineCount THEN getViewLineCount ELSE l

getViewLineMaxColumn(v) == ViewLines[v][3] + 1

\* A view model is given by its injected text: a set of ranges, each on one
\* view line, whose inner columns are no place for a cursor.
NoInjectedText == {}

\* ICursorSimpleModel.normalizePosition(position, PositionAffinity.None) of
\* view model viewModel: a position inside injected text moves to the nearer
\* end of that text, the left one when both are as near; any other position
\* stays.
normalizePositionIn(viewModel, p) ==
    IF viewModel = {} THEN Position(p.lineNumber, p.column)
    ELSE LET around == { r \in viewModel : /\ r.startLineNumber = p.lineNumber
                                           /\ r.startColumn < p.column
                                           /\ p.column < r.endColumn }
         IN  IF around = {} THEN Position(p.lineNumber, p.column)
             ELSE LET r == CHOOSE x \in around : TRUE
                  IN  IF p.column - r.startColumn <= r.endColumn - p.column
                      THEN Position(p.lineNumber, r.startColumn)
                      ELSE Position(p.lineNumber, r.endColumn)

\* normalizePosition of the view of the document fixture, which has no
\* injected text: every position stays.
normalizePosition(p) == Position(p.lineNumber, p.column)

\* ICoordinatesConverter.convertViewPositionToModelPosition
convertViewPositionToModelPosition(vp) ==
    LET v == toValidViewLineNumber(vp.lineNumber)
    IN  validatePosition(Position(ViewLines[v][1], ViewLines[v][2] + vp.column))

\* ICoordinatesConverter.convertViewRangeToModelRange
convertViewRangeToModelRange(vr) ==
    fromPositions(convertViewPositionToModelPosition(getStartPosition(vr)),
                  convertViewPositionToModelPosition(getEndPosition(vr)))

\* ICoordinatesConverter.convertModelPositionToViewPosition: the last view
\* line of the model line that starts at or before the offset.
convertModelPositionToViewPosition(mp) ==
    LET p == validatePosition(mp)
        offset == p.column - 1
        cands == {v \in 1..getViewLineCount :
                     ViewLines[v][1] = p.lineNumber /\ ViewLines[v][2] <= offset}
        v == CHOOSE x \in cands : \A y \in cands : y <= x
    IN  Position(v, offset - ViewLines[v][2] + 1)

\* ICoordinatesConverter.validateViewPosition(viewPosition, expectedModelPosition)
validateViewPosition(vp, expected) ==
    LET v == toValidViewLineNumber(vp.lineNumber)
        c == IF vp.column < 1 THEN 1
             ELSE IF vp.column > getViewLineMaxColumn(v)
             THEN getViewLineMaxColumn(v) ELSE vp.column
        computed == validatePosition(Position(ViewLines[v][1], ViewLines[v][2] + c))
    IN  IF computed = expected THEN Position(v, c)
        ELSE convertModelPositionToViewPosition(expected)

\* ICoordinatesConverter.validateViewRange(viewRange, expectedModelRange)
validateViewRange(vr, expected) ==
    fromPositions(validateViewPosition(getStartPosition(vr), getStartPosition(expected)),
                  validateViewPosition(getEndPosition(vr), getEndPosition(expected)))

(***************************************************************************)
(* SingleCursorState, CursorState.                                         *)
(***************************************************************************)
SingleCursorState(selectionStart, kind, ssLeftover, position, leftover) ==
    [selectionStart |-> asRange(selectionStart),
     selectionStartKind |-> kind,
     selectionStartLeftoverVisibleColumns |-> ssLeftover,
     position |-> position,
     leftoverVisibleColumns |-> leftover]

\* SingleCursorState._computeSelection: the selection a state stands for.
selection(st) ==
    IF isEmpty(st.selectionStart)
       \/ ~ isBeforeOrEqual(st.position, getStartPosition(st.selectionStart))
    THEN selectionFromPositions(getStartPosition(st.selectionStart), st.position)
    ELSE selectionFromPositions(getEndPosition(st.selectionStart), st.position)

\* CursorState.fromModelSelection: a model state only, the view state is null.
fromModelSelection(sel) ==
    [modelState |-> SingleCursorState(
                        fromPositions(getSelectionStart(sel), getSelectionStart(sel)),
                        "Simple", 0, getPosition(sel), 0),
     viewState |-> Null]

(***************************************************************************)
(* Cursor (oneCursor.ts).  A cursor is the record                          *)
(*   [id, modelState, viewState, selTrackedRange, trackSelection]          *)
(* where id is the identity of the object, named relative to the running   *)
(* operation: a cursor that exists when an operation of the collection     *)
(* starts is named by the index it has then, a cursor constructed during   *)
(* the operation gets the next free name.  Operations that also touch the  *)
(* document's tracked-range table return [cursor, table].                  *)
(***************************************************************************)
\* Cursor._updateTrackedRange that registers whether or not tracking is on.
updateTrackedRangeAlways(c, table) ==
    [cursor |-> [c EXCEPT !.selTrackedRange =
                     setTrackedRangeId(table, c.selTrackedRange, selection(c.modelState))],
     table |-> setTrackedRangeTable(table, c.selTrackedRange, selection(c.modelState))]

\* Cursor._updateTrackedRange
updateTrackedRange(c, table) ==
    IF ~ c.trackSelection THEN [cursor |-> c, table |-> table]
    ELSE [cursor |-> [c EXCEPT !.selTrackedRange =
                         setTrackedRangeId(table, c.selTrackedRange, selection(c.modelState))],
          table |-> setTrackedRangeTable(table, c.selTrackedRange, selection(c.modelState))]

\* Cursor._removeTrackedRange
removeTrackedRange(c, table) ==
    [cursor |-> [c EXCEPT !.selTrackedRange =
                     setTrackedRangeId(table, c.selTrackedRange, Null)],
     table |-> setTrackedRangeTable(table, c.selTrackedRange, Null)]

\* Cursor.dispose that leaves the tracked range registered.
disposeCursorNoRelease(c, table) == [cursor |-> c, table |-> table]

\* Cursor.dispose
disposeCursor(c, table) == removeTrackedRange(c, table)

\* Cursor.startTrackingSelection
startTrackingSelection(c, table) ==
    updateTrackedRange([c EXCEPT !.trackSelection = TRUE], table)

\* Cursor.stopTrackingSelection
stopTrackingSelection(c, table) ==
    removeTrackedRange([c EXCEPT !.trackSelection = FALSE], table)

\* _validatePositionWithCache that trusts the cache whatever the position.
validatePositionWithCacheInAlways(viewModel, position, cacheInput, cacheOutput) ==
    cacheOutput

\* Cursor._validatePositionWithCache
validatePositionWithCacheIn(viewModel, position, cacheInput, cacheOutput) ==
    IF position = cacheInput THEN cacheOutput ELSE normalizePositionIn(viewModel, position)

\* Cursor._validateViewState
validateViewStateIn(viewModel, viewState) ==
    LET position == viewState.position
        sStartPosition == getStartPosition(viewState.selectionStart)
        sEndPosition == getEndPosition(viewState.selectionStart)
        validPosition == normalizePositionIn(viewModel, position)
        validSStartPosition ==
            validatePositionWithCacheIn(viewModel, sStartPosition, position, validPosition)
        validSEndPosition ==
            validatePositionWithCacheIn(viewModel, sEndPosition, sStartPosition,
                                        validSStartPosition)
    IN  IF /\ position = validPosition
           /\ sStartPosition = validSStartPosition
           /\ sEndPosition = validSEndPosition
        THEN viewState
        ELSE SingleCursorState(
                 fromPositions(validSStartPosition, validSEndPosition),
                 viewState.selectionStartKind,
                 viewState.selectionStartLeftoverVisibleColumns
                     + sStartPosition.column - validSStartPosition.column,
                 validPosition,
                 viewState.leftoverVisibleColumns + position.column - validPosition.column)

\* Cursor._validatePositionWithCache on the view of the document fixture.
validatePositionWithCache(position, cacheInput, cacheOutput) ==
    IF position = cacheInput THEN cacheOutput ELSE normalizePosition(position)

\* Cursor._validateViewState on the view of the document fixture.
validateViewState(viewState) ==
    LET position == viewState.position
        sStartPosition == getStartPosition(viewState.selectionStart)
        sEndPosition == getEndPosition(viewState.selectionStart)
        validPosition == normalizePosition(position)
        validSStartPosition ==
            validatePositionWithCache(sStartPosition, position, validPosition)
        validSEndPosition ==
            validatePositionWithCache(sEndPosition, sStartPosition, validSStartPosition)
    IN  IF /\ position = validPosition
           /\ sStartPosition = validSStartPosition
           /\ sEndPosition = validSEndPosition
        THEN viewState
        ELSE SingleCursorState(
                 fromPositions(validSStartPosition, validSEndPosition),
                 viewState.selectionStartKind,
                 viewState.selectionStartLeftoverVisibleColumns
                     + sStartPosition.column - validSStartPosition.column,
                 validPosition,
                 viewState.leftoverVisibleColumns + position.column - validPosition.column)

\* Cursor._setState deriving the model state from a view state without its
\* leftover visible columns.
setStateModelDroppingLeftovers(modelState, viewState) ==
    IF modelState = Null
    THEN SingleCursorState(
             validateRange(convertViewRangeToModelRange(viewState.selectionStart)),
             viewState.selectionStartKind,
             0,
             validatePosition(convertViewPositionToModelPosition(viewState.position)),
             0)
    ELSE LET selectionStart == validateRange(modelState.selectionStart)
             position == validatePosition(modelState.position)
         IN  SingleCursorState(
                 selectionStart,
                 modelState.selectionStartKind,
                 IF equalsRange(modelState.selectionStart, selectionStart)
                 THEN modelState.selectionStartLeftoverVisibleColumns ELSE 0,
                 position,
                 IF modelState.position = position
                 THEN modelState.leftoverVisibleColumns ELSE 0)

\* Cursor._setState keeping the leftover visible columns of a model state
\* whatever validation does.
setStateModelKeepingLeftovers(modelState, viewState) ==
    IF modelState = Null
    THEN SingleCursorState(
             validateRange(convertViewRangeToModelRange(viewState.selectionStart)),
             viewState.selectionStartKind,
             viewState.selectionStartLeftoverVisibleColumns,
             validatePosition(convertViewPositionToModelPosition(viewState.position)),
             viewState.leftoverVisibleColumns)
    ELSE SingleCursorState(
             validateRange(modelState.selectionStart),
             modelState.selectionStartKind,
             modelState.selectionStartLeftoverVisibleColumns,
             validatePosition(modelState.position),
             modelState.leftoverVisibleColumns)

\* Cursor._setState, the model state it stores (viewState already validated).
setStateModel(modelState, viewState) ==
    IF modelState = Null
    THEN SingleCursorState(
             validateRange(convertViewRangeToModelRange(viewState.selectionStart)),
             viewState.selectionStartKind,
             viewState.selectionStartLeftoverVisibleColumns,
             validatePosition(convertViewPositionToModelPosition(viewState.position)),
             viewState.leftoverVisibleColumns)
    ELSE LET selectionStart == validateRange(modelState.selectionStart)
             position == validatePosition(modelState.position)
         IN  SingleCursorState(
                 selectionStart,
                 modelState.selectionStartKind,
                 IF equalsRange(modelState.selectionStart, selectionStart)
                 THEN modelState.selectionStartLeftoverVisibleColumns ELSE 0,
                 position,
                 IF modelState.position = position
                 THEN modelState.leftoverVisibleColumns ELSE 0)

\* Cursor._setState storing a supplied view state without validating it
\* against the model state.
setStateViewUnvalidated(modelState, viewState) ==
    IF viewState = Null
    THEN SingleCursorState(
             fromPositions(
                 convertModelPositionToViewPosition(getStartPosition(modelState.selectionStart)),
                 convertModelPositionToViewPosition(getEndPosition(modelState.selectionStart))),
             modelState.selectionStartKind,
             modelState.selectionStartLeftoverVisibleColumns,
             convertModelPositionToViewPosition(modelState.position),
             modelState.leftoverVisibleColumns)
    ELSE SingleCursorState(
             viewState.selectionStart,
             modelState.selectionStartKind,
             modelState.selectionStartLeftoverVisibleColumns,
             viewState.position,
             modelState.leftoverVisibleColumns)

\* Cursor._setState letting a supplied view state keep its own
\* selectionStartKind and leftover columns.
setStateViewKeepingOwn(modelState, viewState) ==
    IF viewState = Null
    THEN SingleCursorState(
             fromPositions(
                 convertModelPositionToViewPosition(getStartPosition(modelState.selectionStart)),
                 convertModelPositionToViewPosition(getEndPosition(modelState.selectionStart))),
             modelState.selectionStartKind,
             modelState.selectionStartLeftoverVisibleColumns,
             convertModelPositionToViewPosition(modelState.position),
             modelState.leftoverVisibleColumns)
    ELSE SingleCursorState(
             validateViewRange(viewState.selectionStart, modelState.selectionStart),
             viewState.selectionStartKind,
             viewState.selectionStartLeftoverVisibleColumns,
             validateViewPosition(viewState.position, modelState.position),
             viewState.leftoverVisibleColumns)

\* Cursor._setState, the view state it stores (modelState already final).
setStateView(modelState, viewState) ==
    IF viewState = Null
    THEN LET viewSelectionStart1 == convertModelPositionToViewPosition(
                 getStartPosition(modelState.selectionStart))
             viewSelectionStart2 == convertModelPositionToViewPosition(
                 getEndPosition(modelState.selectionStart))
         IN  SingleCursorState(
                 fromPositions(viewSelectionStart1, viewSelectionStart2),
                 modelState.selectionStartKind,
                 modelState.selectionStartLeftoverVisibleColumns,
                 convertModelPositionToViewPosition(modelState.position),
                 modelState.leftoverVisibleColumns)
    ELSE SingleCursorState(
             validateViewRange(viewState.selectionStart, modelState.selectionStart),
             modelState.selectionStartKind,
             modelState.selectionStartLeftoverVisibleColumns,
             validateViewPosition(viewState.position, modelState.position),
             modelState.leftoverVisibleColumns)

\* Cursor._setState / Cursor.setState
setState(c, table, modelState, viewState) ==
    LET vs == IF viewState = Null THEN Null ELSE validateViewState(viewState)
    IN  IF modelState = Null /\ vs = Null
        THEN [cursor |-> c, table |-> table]
        ELSE LET ms == setStateModel(modelState, vs)
                 vs2 == setStateView(ms, vs)
             IN  updateTrackedRange(
                     [c EXCEPT !.modelState = ms, !.viewState = vs2], table)

\* Cursor.ensureValidState handing on the model state alone.
ensureValidStateFromModel(c, table) == setState(c, table, c.modelState, Null)

\* Cursor.ensureValidState
ensureValidState(c, table) == setState(c, table, c.modelState, c.viewState)

\* Range.collapseToEnd
collapseToEnd(r) == Range(r.endLineNumber, r.endColumn, r.endLineNumber, r.endColumn)

\* Selection.getDirection
getDirection(sel) ==
    IF /\ sel.selectionStartLineNumber = sel.startLineNumber
       /\ sel.selectionStartColumn = sel.startColumn
    THEN "LTR" ELSE "RTL"

\* Selection.fromRange(range, direction)
selectionFromRange(r, direction) ==
    IF direction = "LTR"
    THEN Selection(r.startLineNumber, r.startColumn, r.endLineNumber, r.endColumn)
    ELSE Selection(r.endLineNumber, r.endColumn, r.startLineNumber, r.startColumn)

\* readSelectionFromMarkers surfacing the grown range of a caret.
readSelectionFromMarkersNoCollapse(c, table) ==
    selectionFromRange(getTrackedRange(table, c.selTrackedRange),
                       getDirection(selection(c.modelState)))

\* Cursor.readSelectionFromMarkers
readSelectionFromMarkers(c, table) ==
    LET range == getTrackedRange(table, c.selTrackedRange)
    IN  IF isEmpty(selection(c.modelState)) /\ ~ isEmpty(range)
        THEN selectionFromRange(collapseToEnd(range),
                                getDirection(selection(c.modelState)))
        ELSE selectionFromRange(range, getDirection(selection(c.modelState)))

\* new Cursor(context) that is constructed with tracking off.
newCursorNotTracking(id, table) ==
    setState([id |-> id, modelState |-> Null, viewState |-> Null,
              selTrackedRange |-> NullId, trackSelection |-> FALSE],
             table,
             SingleCursorState(Range(1, 1, 1, 1), "Simple", 0, Position(1, 1), 0),
             SingleCursorState(Range(1, 1, 1, 1), "Simple", 0, Position(1, 1), 0))

\* new Cursor(context): both states at (1,1), tracking on, range registered.
newCursor(id, table) ==
    setState([id |-> id, modelState |-> Null, viewState |-> Null,
              selTrackedRange |-> NullId, trackSelection |-> TRUE],
             table,
             SingleCursorState(Range(1, 1, 1, 1), "Simple", 0, Position(1, 1), 0),
             SingleCursorState(Range(1, 1, 1, 1), "Simple", 0, Position(1, 1), 0))

(***************************************************************************)
(* CursorCollection.  Its operations work on the record                    *)
(*   [cursors, lastAdded, table, disposed]                                 *)
(* (this.cursors, this.lastAddedCursorIndex, the document's tracked-range  *)
(* table, and the identities of the cursors disposed so far in the call).  *)
(***************************************************************************)
Collection(cs, last, table, disp) ==
    [cursors |-> cs, lastAdded |-> last, table |-> table, disposed |-> disp]

\* The identity of a newly constructed Cursor object: one no live cursor has.
freshId(cs) ==
    CHOOSE n \in 1..(Len(cs) + 1) :
        /\ \A k \in 1..Len(cs) : cs[k].id # n
        /\ \A m \in 1..(n - 1) : \E k \in 1..Len(cs) : cs[k].id = m

\* cursors[index].setState(context, modelState, viewState), index 0-based
setStateAt(coll, index, modelState, viewState) ==
    LET r == setState(coll.cursors[index + 1], coll.table, modelState, viewState)
    IN  [coll EXCEPT !.cursors[index + 1] = r.cursor, !.table = r.table]

\* CursorCollection._addSecondaryCursor
addSecondaryCursor(coll) ==
    LET r == newCursor(freshId(coll.cursors), coll.table)
    IN  [coll EXCEPT !.cursors = Append(coll.cursors, r.cursor),
                     !.table = r.table,
                     !.lastAdded = Len(coll.cursors)]

\* seq.splice(index, 1), index 0-based
splice(seq, index) ==
    [k \in 1..(Len(seq) - 1) |-> IF k <= index THEN seq[k] ELSE seq[k + 1]]

\* _removeSecondaryCursor that leaves lastAddedCursorIndex alone.
removeSecondaryCursorKeepingIndex(coll, removeIndex) ==
    LET r == disposeCursor(coll.cursors[removeIndex + 2], coll.table)
    IN  [cursors |-> splice(coll.cursors, removeIndex + 1),
         lastAdded |-> coll.lastAdded,
         table |-> r.table,
         disposed |-> coll.disposed \cup {coll.cursors[removeIndex + 2].id}]

\* CursorCollection._removeSecondaryCursor
removeSecondaryCursor(coll, removeIndex) ==
    LET r == disposeCursor(coll.cursors[removeIndex + 2], coll.table)
    IN  [cursors |-> splice(coll.cursors, removeIndex + 1),
         lastAdded |-> IF coll.lastAdded >= removeIndex + 1
                       THEN coll.lastAdded - 1 ELSE coll.lastAdded,
         table |-> r.table,
         disposed |-> coll.disposed \cup {coll.cursors[removeIndex + 2].id}]

RECURSIVE addSecondaryCursors(_, _)
\* the creation loop of _setSecondaryStates
addSecondaryCursors(coll, createCnt) ==
    IF createCnt = 0 THEN coll
    ELSE addSecondaryCursors(addSecondaryCursor(coll), createCnt - 1)

RECURSIVE removeFirstSecondaryCursors(_, _)
\* removeSecondaryCursors removing the first secondary cursor instead of the last.
removeFirstSecondaryCursors(coll, removeCnt) ==
    IF removeCnt = 0 THEN coll
    ELSE removeFirstSecondaryCursors(removeSecondaryCursor(coll, 0), removeCnt - 1)

RECURSIVE removeSecondaryCursors(_, _)
\* the removal loop of _setSecondaryStates: always the last cursor
removeSecondaryCursors(coll, removeCnt) ==
    IF removeCnt = 0 THEN coll
    ELSE removeSecondaryCursors(
             removeSecondaryCursor(coll, Len(coll.cursors) - 2), removeCnt - 1)

RECURSIVE setSecondaryLoop(_, _, _)
\* the final loop of _setSecondaryStates, from i on
setSecondaryLoop(coll, secondaryStates, i) ==
    IF i >= Len(secondaryStates) THEN coll
    ELSE setSecondaryLoop(
             setStateAt(coll, i + 1, secondaryStates[i + 1].modelState,
                        secondaryStates[i + 1].viewState),
             secondaryStates, i + 1)

\* CursorCollection._setSecondaryStates
setSecondaryStates(coll, secondaryStates) ==
    LET secondaryCursorsLength == Len(coll.cursors) - 1
        secondaryStatesLength == Len(secondaryStates)
        sized == IF secondaryCursorsLength < secondaryStatesLength
                 THEN addSecondaryCursors(
                          coll, secondaryStatesLength - secondaryCursorsLength)
                 ELSE IF secondaryCursorsLength > secondaryStatesLength
                 THEN removeSecondaryCursors(
                          coll, secondaryCursorsLength - secondaryStatesLength)
                 ELSE coll
    IN  setSecondaryLoop(sized, secondaryStates, 0)

\* CursorCollection.setStates, states not null
setStates(coll, states) ==
    setSecondaryStates(
        setStateAt(coll, 0, states[1].modelState, states[1].viewState),
        SubSeq(states, 2, Len(states)))

\* killSecondaryCursors removing one secondary cursor too few.
killSecondaryCursorsButOne(coll) ==
    IF Len(coll.cursors) > 1
    THEN removeSecondaryCursors(coll, Len(coll.cursors) - 2)
    ELSE coll

\* CursorCollection.killSecondaryCursors
killSecondaryCursors(coll) == setSecondaryStates(coll, << >>)

RECURSIVE forEachCursor(_, _, _)
\* for (const cursor of this.cursors) cursor.<what>(this.context), from index i on
forEachCursor(coll, what, i) ==
    IF i >= Len(coll.cursors) THEN coll
    ELSE LET c == coll.cursors[i + 1]
             r == CASE what = "startTrackingSelection" -> startTrackingSelection(c, coll.table)
                    [] what = "stopTrackingSelection" -> stopTrackingSelection(c, coll.table)
                    [] what = "ensureValidState" -> ensureValidState(c, coll.table)
                    [] what = "dispose" -> disposeCursor(c, coll.table)
         IN  forEachCursor([coll EXCEPT !.cursors[i + 1] = r.cursor, !.table = r.table],
                           what, i + 1)

\* CursorCollection.dispose
dispose(coll) == forEachCursor(coll, "dispose", 0)

\* CursorCollection.startTrackingSelections
startTrackingSelections(coll) == forEachCursor(coll, "startTrackingSelection", 0)

\* CursorCollection.stopTrackingSelections
stopTrackingSelections(coll) == forEachCursor(coll, "stopTrackingSelection", 0)

\* CursorCollection.ensureValidState re-validating the primary cursor only.
ensureValidStatesPrimaryOnly(coll) ==
    LET r == ensureValidState(coll.cursors[1], coll.table)
    IN  [coll EXCEPT !.cursors[1] = r.cursor, !.table = r.table]

\* CursorCollection.ensureValidState
ensureValidStates(coll) == forEachCursor(coll, "ensureValidState", 0)

\* CursorCollection.getLastAddedCursorIndex
getLastAddedCursorIndex(cs, last) ==
    IF Len(cs) = 1 \/ last = 0 THEN 0 ELSE last

\* CursorCollection.getSelections
getSelections(cs) == [k \in 1..Len(cs) |-> selection(cs[k].modelState)]

\* CursorCollection.getViewSelections
getViewSelections(cs) == [k \in 1..Len(cs) |-> selection(cs[k].viewState)]

(***************************************************************************)
(* CursorCollection.normalize.                                             *)
(***************************************************************************)
\* The sorted snapshot before sorting: {index, selection} per cursor.
sortedCursorsOf(cs) ==
    [k \in 1..Len(cs) |-> [index |-> k - 1, selection |-> selection(cs[k].modelState)]]

\* One insertion of the stable sort: x goes after every entry not greater.
insertSorted(seq, x) ==
    LET n == Cardinality({k \in 1..Len(seq) :
                 compareRangesUsingStarts(seq[k].selection, x.selection) <= 0})
    IN  [k \in 1..(Len(seq) + 1) |->
            IF k <= n THEN seq[k] ELSE IF k = n + 1 THEN x ELSE seq[k - 1]]

RECURSIVE sortFrom(_, _, _)
\* sortedCursors.sort(compareBy(s => s.selection, Range.compareRangesUsingStarts)):
\* Array.prototype.sort is stable.
sortFrom(seq, k, acc) ==
    IF k > Len(seq) THEN acc ELSE sortFrom(seq, k + 1, insertSorted(acc, seq[k]))

sortCursors(seq) == sortFrom(seq, 1, << >>)

\* shouldMergeCursors with touching ranges merged like touching carets.
shouldMergeCursorsTouchingRanges(currentSelection, nextSelection) ==
    isBeforeOrEqual(getStartPosition(nextSelection), getEndPosition(currentSelection))

\* shouldMergeCursors with a strict comparison for carets too.
shouldMergeCursorsStrictCarets(currentSelection, nextSelection) ==
    isBefore(getStartPosition(nextSelection), getEndPosition(currentSelection))

\* shouldMergeCursors comparing line numbers only.
shouldMergeCursorsByLine(currentSelection, nextSelection) ==
    nextSelection.startLineNumber <= currentSelection.endLineNumber

\* normalize, lines 213-220: the merge decision for an adjacent sorted pair.
shouldMergeCursors(currentSelection, nextSelection) ==
    IF isEmpty(nextSelection) \/ isEmpty(currentSelection)
    THEN isBeforeOrEqual(getStartPosition(nextSelection), getEndPosition(currentSelection))
    ELSE isBefore(getStartPosition(nextSelection), getEndPosition(currentSelection))

\* normalize: is the selection left to right (anchor at the range's start)?
selectionIsLTR(sel) ==
    /\ sel.selectionStartLineNumber = sel.startLineNumber
    /\ sel.selectionStartColumn = sel.startColumn

\* resultingSelectionIsLTR with the last added cursor given no importance.
resultingSelectionIsLTRWinnerOnly(looserIndex, lastAdded, looserSelection, winnerSelection) ==
    selectionIsLTR(winnerSelection)

\* normalize, lines 238-245: the direction of the merged selection.
resultingSelectionIsLTR(looserIndex, lastAdded, looserSelection, winnerSelection) ==
    IF looserIndex = lastAdded
    THEN selectionIsLTR(looserSelection)
    ELSE selectionIsLTR(winnerSelection)

\* The merged selection being the winner's selection as it was.
resultingSelectionKeepingWinner(looserIndex, lastAdded, looserSelection, winnerSelection) ==
    winnerSelection

\* normalize, lines 247-252: the merged selection.
resultingSelection(looserIndex, lastAdded, looserSelection, winnerSelection) ==
    LET resultingRange == plusRange(looserSelection, winnerSelection)
    IN  IF resultingSelectionIsLTR(looserIndex, lastAdded, looserSelection, winnerSelection)
        THEN Selection(resultingRange.startLineNumber, resultingRange.startColumn,
                       resultingRange.endLineNumber, resultingRange.endColumn)
        ELSE Selection(resultingRange.endLineNumber, resultingRange.endColumn,
                       resultingRange.startLineNumber, resultingRange.startColumn)

\* normalize, lines 232 and 239-241: lastAddedCursorIndex after the direction
\* decision (before the loser is removed).
lastAddedAfterDecision(looserIndex, winnerIndex, lastAdded, looserSelection, winnerSelection) ==
    IF ~ equalsSelection(looserSelection, winnerSelection) /\ looserIndex = lastAdded
    THEN winnerIndex ELSE lastAdded

\* currentWins with the comparison reversed.
currentWinsReversed(current, next) == current.index > next.index

\* normalize, lines 223-224: the entry with the lower index wins.
currentWins(current, next) == current.index < next.index

\* indexAfterMerge without `sortedCursorIndex--`.
indexAfterMergeNoRecheck(i) == i + 1

\* normalize, line 269 and the loop's increment: after a merge the same
\* sorted position is examined again.
indexAfterMerge(i) == (i - 1) + 1

\* skipMerging with the option ignored.
skipMergingNever(multiCursorMergeOverlapping) == FALSE

\* normalize, lines 209-211: merging is skipped when the option is off.
skipMerging(multiCursorMergeOverlapping) == ~ multiCursorMergeOverlapping

\* normalize, lines 222-269: one merge.  st is the loop's state:
\* coll (the live collection; the local copy `cursors` holds the same objects
\* and is spliced alike), sorted (sortedCursors), i (sortedCursorIndex), log.
mergeStep(st) ==
    LET i == st.i
        current == st.sorted[i + 1]
        next == st.sorted[i + 2]
        winnerSortedCursorIndex == IF currentWins(current, next) THEN i ELSE i + 1
        looserSortedCursorIndex == IF currentWins(current, next) THEN i + 1 ELSE i
        looserIndex == st.sorted[looserSortedCursorIndex + 1].index
        winnerIndex == st.sorted[winnerSortedCursorIndex + 1].index
        looserSelection == st.sorted[looserSortedCursorIndex + 1].selection
        winnerSelection == st.sorted[winnerSortedCursorIndex + 1].selection
        differ == ~ equalsSelection(looserSelection, winnerSelection)
        result == resultingSelection(looserIndex, st.coll.lastAdded,
                                     looserSelection, winnerSelection)
        resultingState == fromModelSelection(result)
        \* lines 254-256
        sorted1 == IF differ
                   THEN [st.sorted EXCEPT ![winnerSortedCursorIndex + 1].selection = result]
                   ELSE st.sorted
        coll1 == IF differ
                 THEN setStateAt(
                          [st.coll EXCEPT !.lastAdded =
                              lastAddedAfterDecision(looserIndex, winnerIndex,
                                  st.coll.lastAdded, looserSelection, winnerSelection)],
                          winnerIndex, resultingState.modelState, resultingState.viewState)
                 ELSE st.coll
        \* lines 259-263
        sorted2 == [k \in 1..Len(sorted1) |->
                       IF sorted1[k].index > looserIndex
                       THEN [sorted1[k] EXCEPT !.index = sorted1[k].index - 1]
                       ELSE sorted1[k]]
        \* lines 265-267
        coll2 == removeSecondaryCursor(coll1, looserIndex - 1)
    IN  [coll |-> coll2,
         sorted |-> splice(sorted2, looserSortedCursorIndex),
         i |-> indexAfterMerge(i),
         iterations |-> st.iterations,
         log |-> Append(st.log,
                    [winnerIndex |-> winnerIndex, looserIndex |-> looserIndex,
                     winnerId |-> st.coll.cursors[winnerIndex + 1].id,
                     looserId |-> st.coll.cursors[looserIndex + 1].id,
                     winnerSelection |-> winnerSelection,
                     looserSelection |-> looserSelection,
                     lastAddedBefore |-> st.coll.lastAdded,
                     lastAddedAfter |-> coll2.lastAdded,
                     merged |-> selection(coll1.cursors[winnerIndex + 1].modelState),
                     idsBefore |-> [k \in 1..Len(st.coll.cursors) |-> st.coll.cursors[k].id],
                     idsAfter |-> [k \in 1..Len(coll2.cursors) |-> coll2.cursors[k].id]])]

\* The loop's increment that leaves the scan index where it is.
indexAfterSkipStuck(i) == i

\* normalize, line 203: the loop's increment after an iteration without merge.
indexAfterSkip(i) == i + 1

\* normalize, lines 204-270: one iteration of the loop; st.iterations counts
\* the iterations the loop has made.
normalizeIteration(st, multiCursorMergeOverlapping) ==
    LET counted == [st EXCEPT !.iterations = st.iterations + 1]
    IN  IF skipMerging(multiCursorMergeOverlapping)
        THEN [counted EXCEPT !.i = indexAfterSkip(st.i)]
        ELSE IF shouldMergeCursors(st.sorted[st.i + 1].selection,
                                   st.sorted[st.i + 2].selection)
        THEN mergeStep(counted)
        ELSE [counted EXCEPT !.i = indexAfterSkip(st.i)]

\* normalize, line 203: the loop goes on.
loopContinues(st) == st.i < Len(st.sorted) - 1

RECURSIVE normalizeLoop(_, _)
\* normalize, lines 202-271: the loop over adjacent sorted pairs.
normalizeLoop(st, multiCursorMergeOverlapping) ==
    IF ~ loopContinues(st) THEN st
    ELSE normalizeLoop(normalizeIteration(st, multiCursorMergeOverlapping),
                       multiCursorMergeOverlapping)

\* CursorCollection.normalize: the loop's final state.
normalize(coll, multiCursorMergeOverlapping) ==
    IF Len(coll.cursors) = 1
    THEN [coll |-> coll, sorted |-> << >>, i |-> 0, iterations |-> 0, log |-> << >>]
    ELSE normalizeLoop([coll |-> coll,
                        sorted |-> sortCursors(sortedCursorsOf(coll.cursors)),
                        i |-> 0, iterations |-> 0, log |-> << >>],
                       multiCursorMergeOverlapping)

(***************************************************************************)
(* ViewLinesGpu._updateAtlas (part_001).  A page of the atlas is the       *)
(* record [version, glyphs]; the view keeps, per layer, the version it     *)
(* uploaded last, the content of the glyph storage buffer and the version  *)
(* of the page image copied into the atlas texture (0: none).              *)
(***************************************************************************)
\* TextureAtlasPage.maximumGlyphCount, scaled down.
maximumGlyphCount == 2

\* GlyphStorageBufferInfo.FloatsPerEntry
FloatsPerEntry == 6

\* The k-th glyph a page rasterizes: x, y, w, h, originOffsetX, originOffsetY.
Glyph(k) == << k, 0, 1, 1, 0, 0 >>

\* The atlas as the view finds it first: two pages without glyphs.
newAtlas == << [version |-> 0, glyphs |-> << >>], [version |-> 0, glyphs |-> << >>] >>

\* new Float32Array(FloatsPerEntry * maximumGlyphCount)
newValues == [k \in 1..(FloatsPerEntry * maximumGlyphCount) |-> 0]

\* The view after its initialization, lines 461-472.
newViewLinesGpu ==
    [atlasGpuTextureVersions |-> << 0, 0 >>,
     glyphStorageBuffer |-> << newValues, newValues >>,
     atlasGpuTexture |-> << 0, 0 >>]

\* _updateAtlas, lines 544-554: the array after the loop over the glyphs.  A
\* write past the end of a Float32Array stores nothing.
glyphValues(page) ==
    [k \in 1..(FloatsPerEntry * maximumGlyphCount) |->
        IF (k - 1) \div FloatsPerEntry < Len(page.glyphs)
        THEN page.glyphs[((k - 1) \div FloatsPerEntry) + 1][((k - 1) % FloatsPerEntry) + 1]
        ELSE 0]

\* _updateAtlas, line 554: entryOffset after the loop.
entryOffsetAfter(page) == FloatsPerEntry * Len(page.glyphs)

\* The capacity test that never fails.
exceedsCapacityNever(entryOffset) == FALSE

\* _updateAtlas, line 555
exceedsCapacity(entryOffset) == entryOffset \div FloatsPerEntry > maximumGlyphCount

\* _updateAtlas, line 559: the used area of a page is not empty.
hasUsedArea(page) == Len(page.glyphs) > 0

\* _updateAtlas, lines 557-575: the upload of one page.
uploadPage(view, page, layerIndex) ==
    [atlasGpuTextureVersions |->
         [view.atlasGpuTextureVersions EXCEPT ![layerIndex + 1] = page.version],
     glyphStorageBuffer |->
         [view.glyphStorageBuffer EXCEPT ![layerIndex + 1] = glyphValues(page)],
     atlasGpuTexture |->
         IF hasUsedArea(page)
         THEN [view.atlasGpuTexture EXCEPT ![layerIndex + 1] = page.version]
         ELSE view.atlasGpuTexture]

\* _updateAtlas, the loop over the pages from layerIndex on: the view
\* afterwards, whether an Error was thrown, and the layers written.
RECURSIVE updateAtlasLoop(_, _, _, _)
updateAtlasLoop(view, pages, layerIndex, writes) ==
    IF layerIndex >= Len(pages)
    THEN [view |-> view, error |-> FALSE, writes |-> writes]
    ELSE LET page == pages[layerIndex + 1]
         IN  IF page.version = view.atlasGpuTextureVersions[layerIndex + 1]
             THEN updateAtlasLoop(view, pages, layerIndex + 1, writes)
             ELSE IF exceedsCapacity(entryOffsetAfter(page))
             THEN [view |-> view, error |-> TRUE, writes |-> writes]
             ELSE updateAtlasLoop(uploadPage(view, page, layerIndex), pages,
                                  layerIndex + 1, Append(writes, layerIndex))

\* ViewLinesGpu._updateAtlas
updateAtlas(view, pages) == updateAtlasLoop(view, pages, 0, << >>)

(***************************************************************************)
(* The state machine of a CursorCollection: one action per public          *)
(* operation.  Each action records what it was (op), what it was given     *)
(* (arg) and, for the operations that take no argument, the collection it  *)
(* started from (pre).                                                     *)
(***************************************************************************)
\* The selections setStates / setSelections are called with: a left-to-right
\* range, and a right-to-left range that overlaps it and whose anchor lies
\* past the end of the document.
InputSelections ==
    { Selection(1, 1, 2, 2), Selection(3, 1, 2, 1) }

\* CursorState.fromModelSelections
InputStates == { fromModelSelection(sel) : sel \in InputSelections }

InputLists == UNION { [1..n -> InputStates] : n \in 1..MaxCursors }

NoPre == [cursors |-> << >>, lastAdded |-> 0, table |-> << >>]

\* The collection as an operation finds it, every cursor named by its index.
Current ==
    Collection([k \in 1..Len(cursors) |-> [cursors[k] EXCEPT !.id = k - 1]],
               lastAddedCursorIndex, trackedRanges, {})

Snapshot == [cursors |-> Current.cursors, lastAdded |-> lastAddedCursorIndex,
             table |-> trackedRanges]

Install(coll) ==
    /\ cursors' = coll.cursors
    /\ lastAddedCursorIndex' = coll.lastAdded
    /\ trackedRanges' = coll.table
    /\ disposed' = coll.disposed

\* new CursorCollection(context)
newCursorCollection ==
    LET r == newCursor(0, << >>)
    IN  Collection(<< r.cursor >>, 0, r.table, {})

Init ==
        /\ lineLength = 2
        /\ layoutChanged = FALSE
        /\ cursors = newCursorCollection.cursors
        /\ lastAddedCursorIndex = 0
        /\ mergeOverlapping \in BOOLEAN
        /\ trackedRanges = newCursorCollection.table
        /\ op = "new"
        /\ arg = << >>
        /\ pre = NoPre
        /\ disposed = {}
        /\ mergeLog = << >>
        /\ loop = Null
        /\ atlas = newAtlas
        /\ gpu = newViewLinesGpu

\* setStates(states), states not null (setSelections is the same call)
SetStates ==
    \E states \in InputLists : \E r \in {setStates(Current, states)} :
        /\ Install(r)
        /\ UNCHANGED <<loop, atlas, gpu>>
        /\ op' = "setStates"
        /\ arg' = states
        /\ pre' = NoPre
        /\ mergeLog' = << >>
        /\ UNCHANGED <<mergeOverlapping, lineLength, layoutChanged>>

\* setStates(null)
SetStatesNull ==
    /\ UNCHANGED <<loop, atlas, gpu>>
    /\ op' = "setStatesNull"
    /\ arg' = << >>
    /\ pre' = NoPre
    /\ cursors' = Current.cursors
    /\ disposed' = {}
    /\ mergeLog' = << >>
    /\ UNCHANGED <<lastAddedCursorIndex, trackedRanges, mergeOverlapping,
                   lineLength, layoutChanged>>

\* updateContext(context): the collection reads its options from the new
\* context from now on; the new context holds the same document and view
\* and any value of multiCursorMergeOverlapping.  No cursor is touched.
UpdateContext ==
    /\ \E multiCursorMergeOverlapping \in BOOLEAN :
          mergeOverlapping' = multiCursorMergeOverlapping
    /\ UNCHANGED <<loop, atlas, gpu>>
    /\ op' = "updateContext"
    /\ arg' = << >>
    /\ pre' = NoPre
    /\ cursors' = Current.cursors
    /\ disposed' = {}
    /\ mergeLog' = << >>
    /\ UNCHANGED <<lastAddedCursorIndex, trackedRanges, lineLength, layoutChanged>>

\* killSecondaryCursors()
KillSecondaryCursors ==
    /\ \E r \in {killSecondaryCursors(Current)} : Install(r)
    /\ UNCHANGED <<loop, atlas, gpu>>
    /\ op' = "killSecondaryCursors"
    /\ arg' = << >>
    /\ pre' = NoPre
    /\ mergeLog' = << >>
    /\ UNCHANGED <<mergeOverlapping, lineLength, layoutChanged>>

\* normalize()
Normalize ==
    \E r \in {normalize(Current, mergeOverlapping)} :
        /\ Install(r.coll)
        /\ UNCHANGED <<loop, atlas, gpu>>
        /\ op' = "normalize"
        /\ arg' = << >>
        /\ pre' = Snapshot
        /\ mergeLog' = r.log
        /\ UNCHANGED <<mergeOverlapping, lineLength, layoutChanged>>

\* startTrackingSelections()
StartTrackingSelections ==
    /\ \E r \in {startTrackingSelections(Current)} : Install(r)
    /\ UNCHANGED <<loop, atlas, gpu>>
    /\ op' = "startTrackingSelections"
    /\ arg' = << >>
    /\ pre' = NoPre
    /\ mergeLog' = << >>
    /\ UNCHANGED <<mergeOverlapping, lineLength, layoutChanged>>

\* stopTrackingSelections()
StopTrackingSelections ==
    /\ \E r \in {stopTrackingSelections(Current)} : Install(r)
    /\ UNCHANGED <<loop, atlas, gpu>>
    /\ op' = "stopTrackingSelections"
    /\ arg' = << >>
    /\ pre' = NoPre
    /\ mergeLog' = << >>
    /\ UNCHANGED <<mergeOverlapping, lineLength, layoutChanged>>

\* ensureValidState()
EnsureValidState ==
    /\ \E r \in {ensureValidStates(Current)} : Install(r)
    /\ UNCHANGED <<loop, atlas, gpu>>
    /\ op' = "ensureValidState"
    /\ arg' = << >>
    /\ pre' = NoPre
    /\ mergeLog' = << >>
    /\ UNCHANGED <<mergeOverlapping, lineLength, layoutChanged>>

\* dispose(): the collection is torn down and not used again.
Dispose ==
    /\ op # "dispose"
    /\ \E r \in {dispose(Current)} :
          /\ cursors' = r.cursors
          /\ lastAddedCursorIndex' = r.lastAdded
          /\ trackedRanges' = r.table
          /\ disposed' = { r.cursors[k].id : k \in 1..Len(r.cursors) }
    /\ UNCHANGED <<loop, atlas, gpu>>
    /\ op' = "dispose"
    /\ arg' = << >>
    /\ pre' = NoPre
    /\ mergeLog' = << >>
    /\ UNCHANGED <<mergeOverlapping, lineLength, layoutChanged>>

\* The collection has not been torn down.
Live == op # "dispose"

Next ==
    \/ Live /\ SetStates
    \/ Live /\ SetStatesNull
    \/ Live /\ UpdateContext
    \/ Live /\ KillSecondaryCursors
    \/ Live /\ Normalize
    \/ Live /\ StartTrackingSelections
    \/ Live /\ StopTrackingSelections
    \/ Live /\ EnsureValidState
    \/ Dispose

Spec == Init /\ [][Next]_vars

(***************************************************************************)
(* normalize() on every collection of up to MaxCursors cursors whose       *)
(* selections are the carets and ranges of line 2, in both directions, or  *)
(* the range from the start of the document to (2,2), which overlaps       *)
(* [2,1]-[2,3] without containing it or being contained.  The collection   *)
(* is built by setSelections, lastAddedCursorIndex is any index of the     *)
(* list (merges of a larger collection leave it anywhere), and normalize() *)
(* is then called once, at once or after updateContext has given the      *)
(* collection a context with merging on or off.                            *)
(***************************************************************************)
NormalizePositions == { Position(2, c) : c \in 1..3 }

NormalizeSelections ==
    { selectionFromPositions(a, b) : a \in NormalizePositions, b \in NormalizePositions }
        \cup { selectionFromPositions(Position(1, 1), Position(2, 2)),
               selectionFromPositions(Position(2, 2), Position(1, 1)) }

NormalizeLists == UNION { [1..n -> NormalizeSelections] : n \in 1..MaxCursors }

InitNormalize ==
    /\ lineLength = 2
    /\ layoutChanged = FALSE
    /\ cursors = newCursorCollection.cursors
    /\ lastAddedCursorIndex = 0
    /\ mergeOverlapping = TRUE
    /\ trackedRanges = newCursorCollection.table
    /\ op = "new"
    /\ arg = << >>
    /\ pre = NoPre
    /\ disposed = {}
    /\ mergeLog = << >>
    /\ loop = Null
    /\ atlas = newAtlas
    /\ gpu = newViewLinesGpu

\* setSelections(sels) on the new collection, the most recently added cursor
\* being any cursor of the list.
SetSelectionsOnce ==
    /\ op = "new"
    /\ \E sels \in NormalizeLists :
        \E r \in {setStates(Current,
                            [k \in 1..Len(sels) |-> fromModelSelection(sels[k])])} :
          \E last \in 0..(Len(sels) - 1) :
            /\ cursors' = r.cursors
            /\ lastAddedCursorIndex' = last
            /\ trackedRanges' = r.table
            /\ UNCHANGED <<loop, atlas, gpu>>
            /\ op' = "setStates"
            /\ arg' = [k \in 1..Len(sels) |-> fromModelSelection(sels[k])]
            /\ pre' = NoPre
            /\ disposed' = {}
            /\ mergeLog' = << >>
            /\ UNCHANGED <<mergeOverlapping, lineLength, layoutChanged>>

\* updateContext(context) between setSelections and normalize()
UpdateContextOnce == op = "setStates" /\ UpdateContext

NormalizeOnce == op \in {"setStates", "updateContext"} /\ Normalize

NextNormalize ==
    \/ SetSelectionsOnce
    \/ UpdateContextOnce
    \/ NormalizeOnce

SpecNormalize == InitNormalize /\ [][NextNormalize]_vars

(***************************************************************************)
(* One Cursor over a document that is edited: setState with a model state, *)
(* a view state or both, ensureValidState, start/stopTrackingSelection,    *)
(* readSelectionFromMarkers, and edits of line 2 (one character inserted   *)
(* or deleted) that leave the cursors' states as they are and move their   *)
(* tracked ranges.  The cursor is cursors[1], the primary cursor of a      *)
(* collection that may get one secondary cursor; arg holds the states      *)
(* handed to setState, or the selection readSelectionFromMarkers returned; *)
(* layoutChanged tells that the document was edited since cursors[1] last  *)
(* had its state set.                                                      *)
(***************************************************************************)
\* The positions handed to setState as document coordinates: inside line 2,
\* beyond its last column, beyond the last line.
CursorInputPositions ==
    { Position(2, 1), Position(2, 2), Position(2, MaxLineLength + 2), Position(3, 1) }

CursorInputRanges == { Range(2, 2, 2, 2), Range(2, 1, 2, 2), Range(2, 2, 3, 1) }

\* Every input carries leftover visible columns 1 (selection start) and 2
\* (position), so that a reset to zero shows.
ModelInputs ==
    { SingleCursorState(r, IF isEmpty(r) THEN "Simple" ELSE "Word", 1, q, 2) :
          r \in CursorInputRanges, q \in CursorInputPositions }

\* The positions handed to setState as view coordinates: the end of the
\* first wrapped line and the start of the next (the same document
\* position), and one beyond the view.
ViewInputPositions == { Position(2, 2), Position(3, 1), Position(9, 9) }

ViewInputRanges == { Range(3, 1, 3, 1), Range(2, 1, 3, 2), Range(3, 2, 9, 9) }

ViewInputs ==
    { SingleCursorState(r, IF isEmpty(r) THEN "Simple" ELSE "Word", 1, q, 2) :
          r \in ViewInputRanges, q \in ViewInputPositions }

\* The model states handed to setState together with a view state.
BothModelInputs ==
    { m \in ModelInputs : m.position \in {Position(2, 1), Position(2, MaxLineLength + 2)} }

\* The view states handed to setState together with a model state.
BothViewInputs ==
    { SingleCursorState(Range(3, 1, 3, 1), "Simple", 0, Position(3, 1), 0),
      SingleCursorState(Range(2, 1, 2, 2), "Word", 1, Position(9, 9), 2) }

InitCursor ==
    /\ lineLength = 2
    /\ layoutChanged = FALSE
    /\ cursors = newCursorCollection.cursors
    /\ lastAddedCursorIndex = 0
    /\ mergeOverlapping = TRUE
    /\ trackedRanges = newCursorCollection.table
    /\ op = "new"
    /\ arg = << >>
    /\ pre = NoPre
    /\ disposed = {}
    /\ mergeLog = << >>
    /\ loop = Null
    /\ atlas = newAtlas
    /\ gpu = newViewLinesGpu

\* What no operation of a single cursor touches.
CursorFrame ==
    UNCHANGED <<lastAddedCursorIndex, mergeOverlapping, pre, disposed, mergeLog>>

\* cursor.setState(context, modelState, viewState)
CursorSetState(modelState, viewState) ==
    /\ \E r \in {setState(cursors[1], trackedRanges, modelState, viewState)} :
          /\ cursors' = [cursors EXCEPT ![1] = r.cursor]
          /\ trackedRanges' = r.table
    /\ UNCHANGED <<loop, atlas, gpu>>
    /\ op' = "setState"
    /\ arg' = << [modelState |-> modelState, viewState |-> viewState] >>
    /\ layoutChanged' = FALSE
    /\ UNCHANGED lineLength
    /\ CursorFrame

\* setState(context, modelState, null)
SetModelState == \E m \in ModelInputs : CursorSetState(m, Null)

\* setState(context, null, viewState), also with the cursor's own view state
SetViewState ==
    \E v \in ViewInputs \cup {cursors[1].viewState} : CursorSetState(Null, v)

\* setState(context, modelState, viewState)
SetBothStates ==
    \E m \in BothModelInputs : \E v \in BothViewInputs : CursorSetState(m, v)

\* setState(context, null, null): the call returns before it stores anything.
SetNoState ==
    /\ \E r \in {setState(cursors[1], trackedRanges, Null, Null)} :
          /\ cursors' = [cursors EXCEPT ![1] = r.cursor]
          /\ trackedRanges' = r.table
    /\ op' = "setStateNull"
    /\ arg' = << [modelState |-> Null, viewState |-> Null] >>
    /\ UNCHANGED <<layoutChanged, lineLength, loop, atlas, gpu>>
    /\ CursorFrame

\* The model states the two cursors of a collection are created with.
SecondaryInputs ==
    { SingleCursorState(Range(2, 1, 2, 1), "Simple", 0, Position(2, MaxLineLength + 1), 0),
      SingleCursorState(Range(2, 2, 2, 2), "Simple", 0, Position(2, 2), 0) }

\* setStates([primary, secondary]) on a collection of one cursor.
AddSecondaryCursor ==
    /\ Len(cursors) = 1
    /\ \E p \in SecondaryInputs : \E m \in SecondaryInputs :
          /\ \E r \in {setStates(Current,
                              << [modelState |-> p, viewState |-> Null],
                                 [modelState |-> m, viewState |-> Null] >>)} :
                /\ cursors' = r.cursors
                /\ trackedRanges' = r.table
                /\ lastAddedCursorIndex' = r.lastAdded
          /\ arg' = << p, m >>
    /\ UNCHANGED <<loop, atlas, gpu>>
    /\ op' = "setStates"
    /\ layoutChanged' = FALSE
    /\ UNCHANGED <<lineLength, mergeOverlapping, pre, disposed, mergeLog>>

\* CursorCollection.ensureValidState(): every cursor of the collection.
CursorEnsureValidState ==
    /\ \E r \in {ensureValidStates(Current)} :
          /\ cursors' = r.cursors
          /\ trackedRanges' = r.table
    /\ UNCHANGED <<loop, atlas, gpu>>
    /\ op' = "ensureValidState"
    /\ arg' = << >>
    /\ layoutChanged' = FALSE
    /\ UNCHANGED lineLength
    /\ CursorFrame

\* cursor.startTrackingSelection(context)
CursorStartTrackingSelection ==
    /\ \E r \in {startTrackingSelection(cursors[1], trackedRanges)} :
          /\ cursors' = [cursors EXCEPT ![1] = r.cursor]
          /\ trackedRanges' = r.table
    /\ UNCHANGED <<loop, atlas, gpu>>
    /\ op' = "startTrackingSelection"
    /\ arg' = << >>
    /\ UNCHANGED <<lineLength, layoutChanged>>
    /\ CursorFrame

\* cursor.stopTrackingSelection(context)
CursorStopTrackingSelection ==
    /\ \E r \in {stopTrackingSelection(cursors[1], trackedRanges)} :
          /\ cursors' = [cursors EXCEPT ![1] = r.cursor]
          /\ trackedRanges' = r.table
    /\ UNCHANGED <<loop, atlas, gpu>>
    /\ op' = "stopTrackingSelection"
    /\ arg' = << >>
    /\ UNCHANGED <<lineLength, layoutChanged>>
    /\ CursorFrame

\* cursor.readSelectionFromMarkers(context), for a cursor that has a tracked
\* range; the selection it returns goes to arg.
CursorReadSelectionFromMarkers ==
    /\ cursors[1].selTrackedRange # NullId
    /\ UNCHANGED <<loop, atlas, gpu>>
    /\ op' = "readSelectionFromMarkers"
    /\ arg' = << readSelectionFromMarkers(cursors[1], trackedRanges) >>
    /\ UNCHANGED <<cursors, trackedRanges, lineLength, layoutChanged>>
    /\ CursorFrame

\* One character is typed at column c of line 2: the document moves the
\* tracked ranges, the cursors keep their states until they are told.
InsertCharacter ==
    /\ lineLength < MaxLineLength
    /\ \E c \in 1..(lineLength + 1) :
          /\ trackedRanges' = [k \in DOMAIN trackedRanges |->
                                  trackedRangeAfterInsert(trackedRanges[k], c)]
          /\ arg' = << c >>
    /\ lineLength' = lineLength + 1
    /\ layoutChanged' = TRUE
    /\ UNCHANGED <<loop, atlas, gpu>>
    /\ op' = "insert"
    /\ UNCHANGED cursors
    /\ CursorFrame

\* The character at column c of line 2 is deleted.
DeleteCharacter ==
    /\ lineLength >= 1
    /\ \E c \in 1..lineLength :
          /\ trackedRanges' = [k \in DOMAIN trackedRanges |->
                                  trackedRangeAfterDelete(trackedRanges[k], c)]
          /\ arg' = << c >>
    /\ lineLength' = lineLength - 1
    /\ layoutChanged' = TRUE
    /\ UNCHANGED <<loop, atlas, gpu>>
    /\ op' = "delete"
    /\ UNCHANGED cursors
    /\ CursorFrame

\* The operations of one cursor are explored on a collection of one cursor;
\* a collection of two cursors is created first thing, then edited,
\* re-validated and given new contexts.
Single == Len(cursors) = 1

NextCursor ==
    \/ Single /\ SetModelState
    \/ Single /\ SetViewState
    \/ Single /\ SetBothStates
    \/ Single /\ SetNoState
    \/ ~ Single /\ UpdateContext
    \/ Single /\ CursorStartTrackingSelection
    \/ Single /\ CursorStopTrackingSelection
    \/ Single /\ CursorReadSelectionFromMarkers
    \/ op = "new" /\ AddSecondaryCursor
    \/ CursorEnsureValidState
    \/ InsertCharacter
    \/ DeleteCharacter

SpecCursor == InitCursor /\ [][NextCursor]_vars

(***************************************************************************)
(* DeleteOperations.deleteRight (oneCursor.ts), a function of the previous *)
(* edit operation's type and the selections; it reads the document through *)
(* MoveOperations.right.                                                   *)
(***************************************************************************)
\* strings.nextCharLength at column c of line l, in UTF-16 code units: when
\* line 2 has two characters or more its first two code units are one
\* surrogate pair.
nextCharLength(l, c) == IF l = 2 /\ c = 1 /\ lineLength >= 2 THEN 2 ELSE 1

\* MoveOperations.right(config, model, position): one character to the
\* right, to the start of the next line from the end of a line, nowhere from
\* the end of the document.
moveRight(position) ==
    IF position.column < getLineMaxColumn(position.lineNumber)
    THEN Position(position.lineNumber,
                  position.column + nextCharLength(position.lineNumber, position.column))
    ELSE IF position.lineNumber < getLineCount
    THEN Position(position.lineNumber + 1, 1)
    ELSE position

\* new ReplaceCommand(range, text)
ReplaceCommand(range, text) == [range |-> asRange(range), text |-> text]

\* deleteRight deleting one character to the right of the position whatever
\* is selected.
deleteSelectionOneRight(sel) ==
    LET position == getPosition(sel)
        rightOfPosition == moveRight(position)
    IN  Range(rightOfPosition.lineNumber, rightOfPosition.column,
              position.lineNumber, position.column)

\* deleteRight, the range one selection deletes.
deleteSelection(sel) ==
    IF isEmpty(sel)
    THEN LET position == getPosition(sel)
             rightOfPosition == moveRight(position)
         IN  Range(rightOfPosition.lineNumber, rightOfPosition.column,
                   position.lineNumber, position.column)
    ELSE asRange(sel)

\* deleteRight, the loop over the selections from index i (0-based) on.
RECURSIVE deleteRightLoop(_, _, _, _)
deleteRightLoop(selections, i, shouldPushStackElementBefore, commands) ==
    IF i >= Len(selections)
    THEN [shouldPushStackElementBefore |-> shouldPushStackElementBefore,
          commands |-> commands]
    ELSE LET range == deleteSelection(selections[i + 1])
         IN  IF isEmpty(range)
             THEN deleteRightLoop(selections, i + 1, shouldPushStackElementBefore,
                                  Append(commands, Null))
             ELSE deleteRightLoop(selections, i + 1,
                                  shouldPushStackElementBefore
                                      \/ range.startLineNumber # range.endLineNumber,
                                  Append(commands, ReplaceCommand(range, "")))

\* DeleteOperations.deleteRight(prevEditOperationType, config, model, selections)
deleteRight(prevEditOperationType, selections) ==
    deleteRightLoop(selections, 0, prevEditOperationType # "DeletingRight", << >>)

(***************************************************************************)
(* deleteRight on the selections of a collection: setSelections once, then *)
(* deleteRight once, its result in arg[1], the previous edit operation's   *)
(* type in arg[2].                                                         *)
(***************************************************************************)
DeleteSelections ==
    { Selection(1, 1, 1, 1), Selection(2, 1, 2, 1), Selection(2, 3, 2, 3),
      Selection(2, 3, 2, 1), Selection(1, 1, 2, 1) }

DeleteLists == UNION { [1..n -> DeleteSelections] : n \in 1..MaxCursors }

EditOperationTypes == { "Other", "DeletingLeft", "DeletingRight" }

SetDeleteSelections ==
    /\ op = "new"
    /\ \E sels \in DeleteLists :
          /\ \E r \in {setStates(Current,
                              [k \in 1..Len(sels) |-> fromModelSelection(sels[k])])} :
                Install(r)
          /\ arg' = sels
    /\ UNCHANGED <<loop, atlas, gpu>>
    /\ op' = "setStates"
    /\ pre' = NoPre
    /\ mergeLog' = << >>
    /\ UNCHANGED <<mergeOverlapping, lineLength, layoutChanged>>

DeleteRight ==
    /\ op = "setStates"
    /\ \E prevEditOperationType \in EditOperationTypes :
          arg' = << deleteRight(prevEditOperationType, getSelections(cursors)),
                    prevEditOperationType >>
    /\ UNCHANGED <<loop, atlas, gpu>>
    /\ op' = "deleteRight"
    /\ UNCHANGED <<cursors, lastAddedCursorIndex, trackedRanges, disposed, pre,
                   mergeLog, mergeOverlapping, lineLength, layoutChanged>>

NextDelete ==
    \/ SetDeleteSelections
    \/ DeleteRight

SpecDelete == InitCursor /\ [][NextDelete]_vars

(***************************************************************************)
(* DeleteOperations.deleteLeft and cut (oneCursor.ts): functions of the    *)
(* previous edit operation's type, the configuration, the document and the *)
(* selections.  Here the document is the parameter `model`, a sequence of  *)
(* lines, each line a sequence of UTF-16 code units written as one-letter  *)
(* strings: "HI" and "LO" are the two halves of a surrogate pair, "TAB" is *)
(* a tab, " " a space, "DQ" the double quote, "BQ" the backtick.  charAt's *)
(* 0-based offset k is line[k + 1].                                        *)
(***************************************************************************)
\* ICursorSimpleModel.getLineContent / getLineCount / getLineMaxColumn
getLineContent(model, lineNumber) == model[lineNumber]

getLineCountOf(model) == Len(model)

getLineMaxColumnOf(model, lineNumber) == Len(model[lineNumber]) + 1

\* String.charAt: the empty string beyond the text
charAt(lineText, offset) ==
    IF offset >= 0 /\ offset < Len(lineText) THEN lineText[offset + 1] ELSE ""

\* isQuote (cursorCommon)
isQuote(ch) == ch \in {"'", "DQ", "BQ"}

\* The body of the loop without the test of the 'auto' policy.
selectionIsAutoClosingPairDeleteAnyPolicy(autoClosingDelete, autoClosingBrackets, autoClosingQuotes, autoClosingPairsOpen, model, sel, autoClosedCharacters) ==
    LET position == getPosition(sel)
        lineText == getLineContent(model, position.lineNumber)
        character == charAt(lineText, position.column - 2)
        afterCharacter == charAt(lineText, position.column - 1)
    IN  IF ~ isEmpty(sel) THEN FALSE
        ELSE IF position.column < 2 \/ position.column >= Len(lineText) + 1 THEN FALSE
        ELSE IF character \notin DOMAIN autoClosingPairsOpen THEN FALSE
        ELSE IF isQuote(character) /\ autoClosingQuotes = "never" THEN FALSE
        ELSE IF ~ isQuote(character) /\ autoClosingBrackets = "never" THEN FALSE
        ELSE \E k \in 1..Len(autoClosingPairsOpen[character]) :
                 /\ autoClosingPairsOpen[character][k].open = character
                 /\ autoClosingPairsOpen[character][k].close = afterCharacter

\* isAutoClosingPairDelete, the body of its loop for one selection: TRUE when
\* the loop goes on to the next selection, FALSE when it returns false.
selectionIsAutoClosingPairDelete(autoClosingDelete, autoClosingBrackets, autoClosingQuotes, autoClosingPairsOpen, model, sel, autoClosedCharacters) ==
    LET position == getPosition(sel)
        lineText == getLineContent(model, position.lineNumber)
        character == charAt(lineText, position.column - 2)
        afterCharacter == charAt(lineText, position.column - 1)
    IN  IF ~ isEmpty(sel) THEN FALSE
        ELSE IF position.column < 2 \/ position.column >= Len(lineText) + 1 THEN FALSE
        ELSE IF character \notin DOMAIN autoClosingPairsOpen THEN FALSE
        ELSE IF isQuote(character) /\ autoClosingQuotes = "never" THEN FALSE
        ELSE IF ~ isQuote(character) /\ autoClosingBrackets = "never" THEN FALSE
        ELSE IF ~ \E k \in 1..Len(autoClosingPairsOpen[character]) :
                     /\ autoClosingPairsOpen[character][k].open = character
                     /\ autoClosingPairsOpen[character][k].close = afterCharacter
        THEN FALSE
        ELSE IF autoClosingDelete = "auto"
        THEN \E j \in 1..Len(autoClosedCharacters) :
                 /\ position.lineNumber = autoClosedCharacters[j].startLineNumber
                 /\ position.column = autoClosedCharacters[j].startColumn
        ELSE TRUE

\* isAutoClosingPairDelete satisfied by one qualifying cursor.
isAutoClosingPairDeleteAnyCursor(autoClosingDelete, autoClosingBrackets, autoClosingQuotes, autoClosingPairsOpen, model, selections, autoClosedCharacters) ==
    IF autoClosingBrackets = "never" /\ autoClosingQuotes = "never" THEN FALSE
    ELSE IF autoClosingDelete = "never" THEN FALSE
    ELSE \E i \in 1..Len(selections) :
             selectionIsAutoClosingPairDelete(autoClosingDelete, autoClosingBrackets,
                                              autoClosingQuotes, autoClosingPairsOpen,
                                              model, selections[i], autoClosedCharacters)

\* DeleteOperations.isAutoClosingPairDelete
isAutoClosingPairDelete(autoClosingDelete, autoClosingBrackets, autoClosingQuotes, autoClosingPairsOpen, model, selections, autoClosedCharacters) ==
    IF autoClosingBrackets = "never" /\ autoClosingQuotes = "never" THEN FALSE
    ELSE IF autoClosingDelete = "never" THEN FALSE
    ELSE \A i \in 1..Len(selections) :
             selectionIsAutoClosingPairDelete(autoClosingDelete, autoClosingBrackets,
                                              autoClosingQuotes, autoClosingPairsOpen,
                                              model, selections[i], autoClosedCharacters)

\* _runAutoClosingPairDelete deleting the opening delimiter only.
runAutoClosingPairDeleteOpenOnly(selections) ==
    [shouldPushStackElementBefore |-> TRUE,
     commands |-> [i \in 1..Len(selections) |->
                      LET position == getPosition(selections[i])
                      IN  ReplaceCommand(Range(position.lineNumber, position.column - 1,
                                               position.lineNumber, position.column),
                                         "")]]

\* DeleteOperations._runAutoClosingPairDelete
runAutoClosingPairDelete(selections) ==
    [shouldPushStackElementBefore |-> TRUE,
     commands |-> [i \in 1..Len(selections) |->
                      LET position == getPosition(selections[i])
                      IN  ReplaceCommand(Range(position.lineNumber, position.column - 1,
                                               position.lineNumber, position.column + 1),
                                         "")]]

\* strings.firstNonWhitespaceIndex: the 0-based offset of the first code unit
\* that is neither a space nor a tab, -1 when there is none.
firstNonWhitespaceIndex(str) ==
    LET others == { k \in 1..Len(str) : str[k] \notin {" ", "TAB"} }
    IN  IF others = {} THEN -1
        ELSE (CHOOSE k \in others : \A m \in others : k <= m) - 1

\* strings.getLeftDeleteOffset(offset, str): one character to the left, both
\* halves of a surrogate pair at once.
getLeftDeleteOffset(offset, str) ==
    IF offset >= 2 /\ str[offset - 1] = "HI" /\ str[offset] = "LO"
    THEN offset - 2
    ELSE offset - 1

\* CursorColumns.nextRenderTabStop
nextRenderTabStop(visibleColumn, tabSize) ==
    visibleColumn + tabSize - (visibleColumn % tabSize)

\* CursorColumns.visibleColumnFromColumn(lineContent, column, tabSize): the
\* visible width of the text before the column.
RECURSIVE visibleColumnFromColumn(_, _, _)
visibleColumnFromColumn(lineContent, column, tabSize) ==
    IF column <= 1 \/ Len(lineContent) = 0 THEN 0
    ELSE LET textLen == IF column - 1 < Len(lineContent)
                        THEN column - 1 ELSE Len(lineContent)
             before == visibleColumnFromColumn(lineContent, textLen, tabSize)
         IN  IF lineContent[textLen] = "TAB"
             THEN nextRenderTabStop(before, tabSize)
             ELSE before + 1

\* CursorColumns.prevIndentTabStop
prevIndentTabStop(column, indentSize) ==
    LET stop == column - 1 - ((column - 1) % indentSize)
    IN  IF stop < 0 THEN 0 ELSE stop

\* CursorColumns.columnFromVisibleColumn, its loop from offset i on.
RECURSIVE columnFromVisibleColumnLoop(_, _, _, _, _)
columnFromVisibleColumnLoop(lineContent, visibleColumn, tabSize, i, beforeVisibleColumn) ==
    IF i >= Len(lineContent) THEN Len(lineContent) + 1
    ELSE LET afterVisibleColumn ==
                 IF lineContent[i + 1] = "TAB"
                 THEN nextRenderTabStop(beforeVisibleColumn, tabSize)
                 ELSE beforeVisibleColumn + 1
         IN  IF afterVisibleColumn >= visibleColumn
             THEN IF afterVisibleColumn - visibleColumn < visibleColumn - beforeVisibleColumn
                  THEN i + 2
                  ELSE i + 1
             ELSE columnFromVisibleColumnLoop(lineContent, visibleColumn, tabSize,
                                              i + 1, afterVisibleColumn)

\* CursorConfiguration.columnFromVisibleColumn(model, lineNumber, visibleColumn)
columnFromVisibleColumn(config, model, lineNumber, visibleColumn) ==
    LET result == IF visibleColumn <= 0 THEN 1
                  ELSE columnFromVisibleColumnLoop(getLineContent(model, lineNumber),
                                                   visibleColumn, config.tabSize, 0, 0)
    IN  IF result < 1 THEN 1
        ELSE IF result > getLineMaxColumnOf(model, lineNumber)
        THEN getLineMaxColumnOf(model, lineNumber)
        ELSE result

\* getPositionAfterDeleteLeft that never leaves the caret's line.
getPositionAfterDeleteLeftSameLine(position, model) ==
    IF position.column > 1
    THEN Position(position.lineNumber,
                  getLeftDeleteOffset(position.column - 1,
                                      getLineContent(model, position.lineNumber)) + 1)
    ELSE position

\* DeleteOperations.getPositionAfterDeleteLeft
getPositionAfterDeleteLeft(position, model) ==
    IF position.column > 1
    THEN Position(position.lineNumber,
                  getLeftDeleteOffset(position.column - 1,
                                      getLineContent(model, position.lineNumber)) + 1)
    ELSE IF position.lineNumber > 1
    THEN Position(position.lineNumber - 1, getLineMaxColumnOf(model, position.lineNumber - 1))
    ELSE position

\* getDeleteRange that never looks at the indentation.
getDeleteRangeNoTabStops(sel, model, config) ==
    IF ~ isEmpty(sel) THEN asRange(sel)
    ELSE fromPositions(getPositionAfterDeleteLeft(getPosition(sel), model), getPosition(sel))

\* DeleteOperations.getDeleteRange
getDeleteRange(sel, model, config) ==
    IF ~ isEmpty(sel) THEN asRange(sel)
    ELSE LET position == getPosition(sel)
             lineContent == getLineContent(model, position.lineNumber)
             lastIndentationColumn ==
                 IF firstNonWhitespaceIndex(lineContent) = -1
                 THEN Len(lineContent) + 1
                 ELSE firstNonWhitespaceIndex(lineContent) + 1
         IN  IF /\ config.useTabStops
                /\ position.column > 1
                /\ position.column <= lastIndentationColumn
             THEN LET fromVisibleColumn ==
                          visibleColumnFromColumn(lineContent, position.column, config.tabSize)
                      toVisibleColumn == prevIndentTabStop(fromVisibleColumn, config.indentSize)
                      toColumn == columnFromVisibleColumn(config, model, position.lineNumber,
                                                          toVisibleColumn)
                  IN  Range(position.lineNumber, toColumn, position.lineNumber, position.column)
             ELSE fromPositions(getPositionAfterDeleteLeft(position, model), position)

\* deleteLeft, the loop over the selections from index i (0-based) on.
RECURSIVE deleteLeftLoop(_, _, _, _, _, _)
deleteLeftLoop(config, model, selections, i, shouldPushStackElementBefore, commands) ==
    IF i >= Len(selections)
    THEN [shouldPushStackElementBefore |-> shouldPushStackElementBefore,
          commands |-> commands]
    ELSE LET deleteRange == getDeleteRange(selections[i + 1], model, config)
         IN  IF isEmpty(deleteRange)
             THEN deleteLeftLoop(config, model, selections, i + 1,
                                 shouldPushStackElementBefore, Append(commands, Null))
             ELSE deleteLeftLoop(config, model, selections, i + 1,
                                 shouldPushStackElementBefore
                                     \/ deleteRange.startLineNumber # deleteRange.endLineNumber,
                                 Append(commands, ReplaceCommand(deleteRange, "")))

\* deleteLeft always starting a fresh undo boundary.
deleteLeftNeverGrouping(prevEditOperationType, config, model, selections, autoClosedCharacters) ==
    IF isAutoClosingPairDelete(config.autoClosingDelete, config.autoClosingBrackets,
                               config.autoClosingQuotes, config.autoClosingPairsOpenByEnd,
                               model, selections, autoClosedCharacters)
    THEN runAutoClosingPairDelete(selections)
    ELSE deleteLeftLoop(config, model, selections, 0, TRUE, << >>)

\* DeleteOperations.deleteLeft
deleteLeft(prevEditOperationType, config, model, selections, autoClosedCharacters) ==
    IF isAutoClosingPairDelete(config.autoClosingDelete, config.autoClosingBrackets,
                               config.autoClosingQuotes, config.autoClosingPairsOpenByEnd,
                               model, selections, autoClosedCharacters)
    THEN runAutoClosingPairDelete(selections)
    ELSE deleteLeftLoop(config, model, selections, 0,
                        prevEditOperationType # "DeletingLeft", << >>)

(***************************************************************************)
(* deleteLeft applied once to inputs drawn from two families: a document   *)
(* with delimiter pairs under every auto-closing configuration, and a      *)
(* document with indentation under every tab-stop configuration.  The      *)
(* inputs, the result and what isAutoClosingPairDelete answered (line 401) *)
(* go to arg[1].  deleteRight is applied as in SpecDelete.                 *)
(***************************************************************************)
\* The largest number of selections handed to deleteLeft and to cut.
MaxSelections == 2

\* config.autoClosingPairs.autoClosingPairsOpenByEnd: the pairs whose opening
\* delimiter ends with the key.
AutoClosingPairsOpenByEnd ==
    [ch \in {"(", "'"} |->
        IF ch = "(" THEN << [open |-> "(", close |-> ")"] >>
        ELSE << [open |-> "f'", close |-> "'"], [open |-> "'", close |-> "'"] >>]

\* CursorConfiguration, the fields the delete operations read.
CursorConfiguration(autoClosingDelete, autoClosingBrackets, autoClosingQuotes, useTabStops, tabSize, indentSize, emptySelectionClipboard) ==
    [autoClosingDelete |-> autoClosingDelete,
     autoClosingBrackets |-> autoClosingBrackets,
     autoClosingQuotes |-> autoClosingQuotes,
     autoClosingPairsOpenByEnd |-> AutoClosingPairsOpenByEnd,
     useTabStops |-> useTabStops,
     indentSize |-> indentSize,
     tabSize |-> tabSize,
     emptySelectionClipboard |-> emptySelectionClipboard]

\* Line 1 is ()'' and line 2 is (] .
PairDocument == << << "(", ")", "'", "'" >>, << "(", "]" >> >>

\* Carets at column 1, inside (), between ) and ', inside '', at the end of
\* line 1, inside (] ; and one non-empty selection.
PairSelections ==
    { Selection(1, 1, 1, 1), Selection(1, 2, 1, 2), Selection(1, 3, 1, 3),
      Selection(1, 4, 1, 4), Selection(1, 5, 1, 5), Selection(2, 2, 2, 2),
      Selection(1, 2, 1, 3) }

PairConfigurations ==
    { CursorConfiguration(d, b, q, FALSE, 4, 4, TRUE) :
          d \in {"never", "auto", "always"},
          b \in {"never", "languageDefined"},
          q \in {"never", "languageDefined"} }

\* The ranges auto-closed since the last edit: none; the ) of line 1; the (
\* and the first ' of line 1; the ) and the second ' of line 1.
AutoClosedCharacters ==
    { << >>,
      << Range(1, 2, 1, 3) >>,
      << Range(1, 1, 1, 2), Range(1, 3, 1, 4) >>,
      << Range(1, 2, 1, 3), Range(1, 4, 1, 5) >> }

\* Line 1 is four spaces and x, line 2 is a tab, x and a surrogate pair,
\* line 3 is a space, a tab and a space.
IndentDocument ==
    << << " ", " ", " ", " ", "x" >>,
       << "TAB", "x", "HI", "LO" >>,
       << " ", "TAB", " " >> >>

IndentSelections ==
    { Selection(1, 1, 1, 1), Selection(1, 3, 1, 3), Selection(1, 5, 1, 5),
      Selection(1, 6, 1, 6), Selection(2, 1, 2, 1), Selection(2, 2, 2, 2),
      Selection(2, 3, 2, 3), Selection(2, 5, 2, 5), Selection(3, 3, 3, 3),
      Selection(3, 4, 3, 4), Selection(2, 2, 1, 2) }

\* Pairs of (tab size, indent size): equal, and a tab wider than one indent
\* level with the stop in its middle or near its end.
TabAndIndentSizes == { << 4, 4 >>, << 2, 2 >>, << 4, 2 >>, << 4, 3 >> }

IndentConfigurations ==
    { CursorConfiguration("never", "never", "never", t, sizes[1], sizes[2], TRUE) :
          t \in BOOLEAN, sizes \in TabAndIndentSizes }

SelectionLists(S) == UNION { [1..n -> S] : n \in 1..MaxSelections }

DeleteLeftInputs ==
    { [config |-> c, model |-> PairDocument, selections |-> sels,
       autoClosedCharacters |-> a] :
          c \in PairConfigurations, sels \in SelectionLists(PairSelections),
          a \in AutoClosedCharacters }
    \cup
    { [config |-> c, model |-> IndentDocument, selections |-> sels,
       autoClosedCharacters |-> << >>] :
          c \in IndentConfigurations, sels \in SelectionLists(IndentSelections) }

DeleteLeft ==
    /\ \E in \in DeleteLeftInputs : \E prevEditOperationType \in EditOperationTypes :
          arg' = << [result |-> deleteLeft(prevEditOperationType, in.config, in.model,
                                           in.selections, in.autoClosedCharacters),
                     pairDelete |-> isAutoClosingPairDelete(
                         in.config.autoClosingDelete, in.config.autoClosingBrackets,
                         in.config.autoClosingQuotes, in.config.autoClosingPairsOpenByEnd,
                         in.model, in.selections, in.autoClosedCharacters),
                     prevEditOperationType |-> prevEditOperationType,
                     config |-> in.config,
                     model |-> in.model,
                     selections |-> in.selections,
                     autoClosedCharacters |-> in.autoClosedCharacters] >>
    /\ UNCHANGED <<loop, atlas, gpu>>
    /\ op' = "deleteLeft"
    /\ UNCHANGED <<cursors, lastAddedCursorIndex, trackedRanges, disposed, pre,
                   mergeLog, mergeOverlapping, lineLength, layoutChanged>>

NextDeleteLeft ==
    \/ SetDeleteSelections
    \/ DeleteRight
    \/ op = "new" /\ DeleteLeft

SpecDeleteLeft == InitCursor /\ [][NextDeleteLeft]_vars

(***************************************************************************)
(* DeleteOperations.cut.                                                   *)
(***************************************************************************)
\* Position.compare(a, b): negative, zero or positive.
comparePositions(a, b) ==
    IF a.lineNumber = b.lineNumber THEN a.column - b.column
    ELSE a.lineNumber - b.lineNumber

\* The comparator cut hands to Array.prototype.sort: the start of a against
\* the end of b.
cutCompare(a, b) == comparePositions(getStartPosition(a), getEndPosition(b))

\* Array.prototype.sort as the engine of the build (V8, TimSort) runs it on an
\* array shorter than 64 elements: CountAndMakeRun finds the run the array
\* starts with, a strictly descending run is reversed, and BinaryInsertionSort
\* inserts the remaining elements.  countRun is the length of the run that
\* starts the array, idx being the next element to look at.
RECURSIVE countRun(_, _, _)
countRun(array, idx, isDescending) ==
    IF idx > Len(array) THEN idx - 1
    ELSE LET order == cutCompare(array[idx], array[idx - 1])
         IN  IF (isDescending /\ order >= 0) \/ (~ isDescending /\ order < 0)
             THEN idx - 1
             ELSE countRun(array, idx + 1, isDescending)

\* CountAndMakeRun: the run length and the array with a descending run reversed.
countAndMakeRun(array) ==
    LET isDescending == cutCompare(array[2], array[1]) < 0
        runLength == countRun(array, 3, isDescending)
    IN  [runLength |-> runLength,
         array |-> IF isDescending
                   THEN [k \in 1..Len(array) |->
                            IF k <= runLength THEN array[runLength + 1 - k] ELSE array[k]]
                   ELSE array]

\* The binary search of BinaryInsertionSort: where pivot goes in array[left..right-1].
RECURSIVE binarySearch(_, _, _, _)
binarySearch(array, pivot, left, right) ==
    IF left >= right THEN left
    ELSE LET mid == left + ((right - left) \div 2)
         IN  IF cutCompare(pivot, array[mid]) < 0
             THEN binarySearch(array, pivot, left, mid)
             ELSE binarySearch(array, pivot, mid + 1, right)

\* BinaryInsertionSort from element `start` on.
RECURSIVE binaryInsertionSort(_, _)
binaryInsertionSort(array, start) ==
    IF start > Len(array) THEN array
    ELSE LET left == binarySearch(array, array[start], 1, start)
         IN  binaryInsertionSort(
                 SubSeq(array, 1, left - 1) \o << array[start] >>
                     \o SubSeq(array, left, start - 1)
                     \o SubSeq(array, start + 1, Len(array)),
                 start + 1)

\* selections.sort((a, b) => Position.compare(a.getStartPosition(), b.getEndPosition()))
sortSelections(selections) ==
    IF Len(selections) < 2 THEN selections
    ELSE LET run == countAndMakeRun(selections)
         IN  IF run.runLength < Len(selections)
             THEN binaryInsertionSort(run.array, run.runLength + 1)
             ELSE run.array

\* The range of a full line cut when the last line never takes its leading
\* newline along.
cutLineRangeContentOnly(model, position, lastCutRange) ==
    IF position.lineNumber < getLineCountOf(model)
    THEN Range(position.lineNumber, 1, position.lineNumber + 1, 1)
    ELSE Range(position.lineNumber, 1,
               position.lineNumber, getLineMaxColumnOf(model, position.lineNumber))

\* The range of a full line cut that ignores the previous cut.
cutLineRangeNoGuard(model, position, lastCutRange) ==
    IF position.lineNumber < getLineCountOf(model)
    THEN Range(position.lineNumber, 1, position.lineNumber + 1, 1)
    ELSE IF position.lineNumber > 1
    THEN Range(position.lineNumber - 1, getLineMaxColumnOf(model, position.lineNumber - 1),
               position.lineNumber, getLineMaxColumnOf(model, position.lineNumber))
    ELSE Range(position.lineNumber, 1,
               position.lineNumber, getLineMaxColumnOf(model, position.lineNumber))

\* cut, the range of a full line cut for a caret at `position`; lastCutRange
\* is the range of the previous full line cut, or Null.
cutLineRange(model, position, lastCutRange) ==
    IF position.lineNumber < getLineCountOf(model)
    THEN Range(position.lineNumber, 1, position.lineNumber + 1, 1)
    ELSE IF /\ position.lineNumber > 1
            /\ (lastCutRange = Null \/ lastCutRange.endLineNumber # position.lineNumber)
    THEN Range(position.lineNumber - 1, getLineMaxColumnOf(model, position.lineNumber - 1),
               position.lineNumber, getLineMaxColumnOf(model, position.lineNumber))
    ELSE Range(position.lineNumber, 1,
               position.lineNumber, getLineMaxColumnOf(model, position.lineNumber))

\* cut, the loop over the sorted selections from index i (0-based) on.
RECURSIVE cutLoop(_, _, _, _, _, _)
cutLoop(config, model, selections, i, lastCutRange, commands) ==
    IF i >= Len(selections) THEN commands
    ELSE LET sel == selections[i + 1]
         IN  IF isEmpty(sel)
             THEN IF config.emptySelectionClipboard
                  THEN LET deleteRange ==
                               cutLineRange(model, getPosition(sel), lastCutRange)
                       IN  cutLoop(config, model, selections, i + 1, deleteRange,
                                   Append(commands,
                                          IF ~ isEmpty(deleteRange)
                                          THEN ReplaceCommand(deleteRange, "")
                                          ELSE Null))
                  ELSE cutLoop(config, model, selections, i + 1, lastCutRange,
                               Append(commands, Null))
             ELSE cutLoop(config, model, selections, i + 1, lastCutRange,
                          Append(commands, ReplaceCommand(sel, "")))

\* cut that lets the next edit join its undo group.
cutGroupedAfter(config, model, selections) ==
    [type |-> "Other",
     commands |-> cutLoop(config, model, sortSelections(selections), 0, Null, << >>),
     shouldPushStackElementBefore |-> TRUE,
     shouldPushStackElementAfter |-> FALSE]

\* DeleteOperations.cut: the EditOperationResult.
cut(config, model, selections) ==
    [type |-> "Other",
     commands |-> cutLoop(config, model, sortSelections(selections), 0, Null, << >>),
     shouldPushStackElementBefore |-> TRUE,
     shouldPushStackElementAfter |-> TRUE]

(***************************************************************************)
(* SpecCut: one call of cut on a document, a configuration and a list of   *)
(* selections; the inputs, the array as the sort leaves it and the result  *)
(* are kept in arg[1].                                                     *)
(***************************************************************************)
\* A document of one empty line, of one line, of two lines the last of which
\* is empty, and of three lines.
EmptyDocument == << << >> >>

OneLineDocument == << << "a", "b" >> >>

TwoLineDocument == << << "a" >>, << >> >>

ThreeLineDocument == << << "a", "b" >>, << "c", "d", "e" >>, << "f" >> >>

\* Carets and selections of each document; those of the three-line document
\* overlap, nest and cross lines.
CutSelections(model) ==
    IF model = EmptyDocument THEN { Selection(1, 1, 1, 1) }
    ELSE IF model = OneLineDocument
    THEN { Selection(1, 1, 1, 1), Selection(1, 3, 1, 3), Selection(1, 1, 1, 3) }
    ELSE IF model = TwoLineDocument
    THEN { Selection(1, 1, 1, 1), Selection(1, 2, 1, 2), Selection(2, 1, 2, 1) }
    ELSE { Selection(1, 1, 1, 1), Selection(2, 2, 2, 2), Selection(3, 1, 3, 1),
           Selection(3, 2, 3, 2), Selection(2, 1, 2, 3), Selection(2, 2, 2, 3),
           Selection(2, 4, 2, 2), Selection(1, 2, 3, 1) }

CutDocuments == { EmptyDocument, OneLineDocument, TwoLineDocument, ThreeLineDocument }

CutInputs ==
    UNION { { [config |-> CursorConfiguration("never", "never", "never", FALSE, 4, 4, e),
               model |-> model,
               selections |-> selections] :
                  e \in BOOLEAN, selections \in SelectionLists(CutSelections(model)) } :
            model \in CutDocuments }

Cut ==
    /\ op = "new"
    /\ \E in \in CutInputs :
          arg' = << [result |-> cut(in.config, in.model, in.selections),
                     sorted |-> sortSelections(in.selections),
                     config |-> in.config,
                     model |-> in.model,
                     selections |-> in.selections] >>
    /\ UNCHANGED <<loop, atlas, gpu>>
    /\ op' = "cut"
    /\ UNCHANGED <<cursors, lastAddedCursorIndex, trackedRanges, disposed, pre,
                   mergeLog, mergeOverlapping, lineLength, layoutChanged>>

NextCut == Cut

SpecCut == InitCursor /\ [][NextCut]_vars

(***************************************************************************)
(* SpecSequence: any sequence of setStates, updateContext,                 *)
(* killSecondaryCursors and normalize on lists of two carets and a range   *)
(* of line 2, of which the caret (2,1) and the range merge and the caret   *)
(* (2,3) stays apart, so that normalize() leaves collections of several    *)
(* cursors behind.                                                         *)
(***************************************************************************)
SequenceSelections ==
    { Selection(2, 1, 2, 1), Selection(2, 3, 2, 3), Selection(2, 1, 2, 2) }

SequenceLists ==
    UNION { [1..n -> { fromModelSelection(sel) : sel \in SequenceSelections }] :
                n \in 1..MaxCursors }

\* setStates(states) with one of those lists
SetSequenceStates ==
    \E states \in SequenceLists : \E r \in {setStates(Current, states)} :
        /\ Install(r)
        /\ UNCHANGED <<loop, atlas, gpu>>
        /\ op' = "setStates"
        /\ arg' = states
        /\ pre' = NoPre
        /\ mergeLog' = << >>
        /\ UNCHANGED <<mergeOverlapping, lineLength, layoutChanged>>

NextSequence ==
    \/ SetSequenceStates
    \/ UpdateContext
    \/ KillSecondaryCursors
    \/ Normalize

SpecSequence == InitCursor /\ [][NextSequence]_vars

(***************************************************************************)
(* SpecNormalizeLoop: normalize() one loop iteration at a time.  The       *)
(* variable loop holds the locals of the running call (the sorted          *)
(* snapshot, the scan index, the live collection) and the number of       *)
(* iterations made so far.                                                 *)
(***************************************************************************)
\* setStates between two calls of normalize()
SetLoopStates == loop = Null /\ SetSequenceStates

\* updateContext(context) between two calls of normalize()
UpdateLoopContext == loop = Null /\ UpdateContext

\* normalize() up to its loop, lines 182-201
NormalizeBegin ==
    /\ loop = Null
    /\ op \in {"setStates", "updateContext"}
    /\ IF Len(cursors) = 1
       THEN /\ loop' = Null
            /\ op' = "normalize"
       ELSE /\ loop' = [coll |-> Current,
                        sorted |-> sortCursors(sortedCursorsOf(Current.cursors)),
                        i |-> 0, iterations |-> 0, log |-> << >>]
            /\ op' = "normalizing"
    /\ arg' = << >>
    /\ pre' = Snapshot
    /\ mergeLog' = << >>
    /\ disposed' = {}
    /\ UNCHANGED <<cursors, lastAddedCursorIndex, trackedRanges, mergeOverlapping,
                   lineLength, layoutChanged, atlas, gpu>>

\* One iteration of the loop of normalize()
NormalizeIteration ==
    /\ loop # Null
    /\ loopContinues(loop)
    /\ \E st \in {normalizeIteration(loop, mergeOverlapping)} :
          /\ loop' = st
          /\ Install(st.coll)
          /\ mergeLog' = st.log
    /\ UNCHANGED <<op, arg, pre, mergeOverlapping, lineLength, layoutChanged, atlas, gpu>>

\* The loop of normalize() ends and the call returns
NormalizeEnd ==
    /\ loop # Null
    /\ ~ loopContinues(loop)
    /\ loop' = Null
    /\ op' = "normalize"
    /\ UNCHANGED <<cursors, lastAddedCursorIndex, trackedRanges, disposed, arg, pre,
                   mergeLog, mergeOverlapping, lineLength, layoutChanged, atlas, gpu>>

NextNormalizeLoop ==
    \/ SetLoopStates
    \/ UpdateLoopContext
    \/ NormalizeBegin
    \/ NormalizeIteration
    \/ NormalizeEnd

SpecNormalizeLoop == Init /\ [][NextNormalizeLoop]_vars

(***************************************************************************)
(* SpecValidate: one call of Cursor._validateViewState on a view model     *)
(* with injected text; the inputs and the result are kept in arg[1].       *)
(***************************************************************************)
\* View models: no injected text, and injected text over part of view line 1.
ViewModelInputs ==
    { NoInjectedText, { Range(1, 1, 1, 4) }, { Range(1, 2, 1, 4) }, { Range(1, 1, 1, 3) } }

ValidatePositions ==
    { Position(1, c) : c \in 1..(MaxLineLength + 1) } \cup { Position(2, 1) }

\* View states over those positions, the selection start before, at or after
\* the position.
ValidateInputs ==
    { SingleCursorState(fromPositions(a, b), IF a = b THEN "Simple" ELSE "Word", 1, q, 2) :
          a \in ValidatePositions,
          b \in ValidatePositions,
          q \in ValidatePositions }

ValidateViewState ==
    /\ op = "new"
    /\ \E viewModel \in ViewModelInputs : \E viewState \in ValidateInputs :
          arg' = << [result |-> validateViewStateIn(viewModel, viewState),
                     viewModel |-> viewModel,
                     viewState |-> viewState] >>
    /\ UNCHANGED <<loop, atlas, gpu>>
    /\ op' = "validateViewState"
    /\ UNCHANGED <<cursors, lastAddedCursorIndex, trackedRanges, disposed, pre,
                   mergeLog, mergeOverlapping, lineLength, layoutChanged>>

NextValidate == ValidateViewState

SpecValidate == InitCursor /\ [][NextValidate]_vars

(***************************************************************************)
(* SpecAtlas: the atlas gains glyphs, one at a time and past the capacity  *)
(* of the glyph storage buffer, and the view uploads it with _updateAtlas. *)
(***************************************************************************)
\* What the view and the atlas never touch.
AtlasFrame ==
    UNCHANGED <<cursors, lastAddedCursorIndex, mergeOverlapping, trackedRanges,
                pre, disposed, mergeLog, lineLength, layoutChanged, loop>>

\* The atlas rasterizes a glyph into one of its pages, which gets a new version.
AddGlyph ==
    /\ \E layerIndex \in 0..(Len(atlas) - 1) :
          /\ Len(atlas[layerIndex + 1].glyphs) <= maximumGlyphCount
          /\ atlas' = [atlas EXCEPT ![layerIndex + 1] =
                          [version |-> @.version + 1,
                           glyphs |-> Append(@.glyphs, Glyph(Len(@.glyphs) + 1))]]
    /\ op' = "addGlyph"
    /\ arg' = << >>
    /\ UNCHANGED gpu
    /\ AtlasFrame

\* _updateAtlas(); whether it threw and the layers it wrote are kept in arg[1].
UpdateAtlas ==
    /\ \E r \in {updateAtlas(gpu, atlas)} :
          /\ gpu' = r.view
          /\ arg' = << [error |-> r.error, writes |-> r.writes] >>
    /\ op' = "updateAtlas"
    /\ UNCHANGED atlas
    /\ AtlasFrame

NextAtlas ==
    \/ AddGlyph
    \/ UpdateAtlas

SpecAtlas == InitCursor /\ [][NextAtlas]_vars

(***************************************************************************)
(* Properties.                                                             *)
(***************************************************************************)
Sel(k) == selection(cursors[k].modelState)

PreSel(k) == selection(pre.cursors[k].modelState)

Ids(cs) == [k \in 1..Len(cs) |-> cs[k].id]

Caret(l, c) == Selection(l, c, l, c)

\* Two non-empty selections share more than an end point.
StrictlyOverlap(a, b) ==
    /\ isBefore(getStartPosition(a), getEndPosition(b))
    /\ isBefore(getStartPosition(b), getEndPosition(a))

\* The caret a lies inside b or on one of its end points.
CaretOn(a, b) ==
    /\ isBeforeOrEqual(getStartPosition(b), getPosition(a))
    /\ isBeforeOrEqual(getPosition(a), getEndPosition(b))

\* The merge condition between any two selections.
Collide(a, b) ==
    IF isEmpty(a) THEN CaretOn(a, b)
    ELSE IF isEmpty(b) THEN CaretOn(b, a)
    ELSE StrictlyOverlap(a, b)

\* The anchor of the selection is the start of its range.
IsLTR(sel) == getSelectionStart(sel) = getStartPosition(sel)

\* The one of a, b that sorts first by start (then end), and the other.
Earlier(a, b) == IF compareRangesUsingStarts(a, b) <= 0 THEN a ELSE b

Later(a, b) == IF compareRangesUsingStarts(a, b) <= 0 THEN b ELSE a

Normalized == op = "normalize"

Unchanged ==
    /\ cursors = pre.cursors
    /\ lastAddedCursorIndex = pre.lastAdded
    /\ trackedRanges = pre.table
    /\ disposed = {}
    /\ mergeLog = << >>

\* C1: after any sequence of operations the collection holds at least one
\* cursor and the cursor at index 0 is the primary cursor: the operation that
\* led here found it at index 0 and did not dispose it (until the whole
\* collection is torn down by dispose()).
C1_PrimaryKept ==
    /\ Len(cursors) >= 1
    /\ cursors[1].id = 0
    /\ Live => 0 \notin disposed

\* normalize() merged a secondary cursor that sorts first into the primary.
C1_Witness ==
    /\ Normalized
    /\ \E k \in 1..Len(mergeLog) :
          /\ mergeLog[k].winnerIndex = 0
          /\ isBefore(getStartPosition(mergeLog[k].looserSelection),
                      getStartPosition(mergeLog[k].winnerSelection))

\* C2: when normalize() returns with merging enabled, no two cursors of the
\* collection, adjacent in sorted order or not, satisfy the merge condition.
C2_NoCollisionLeft ==
    (Normalized /\ mergeOverlapping) =>
        \A i \in 1..Len(cursors) : \A j \in 1..Len(cursors) :
            i # j => ~ Collide(Sel(i), Sel(j))

\* normalize() merged twice in a row at the same sorted position.
C2_Witness ==
    /\ Normalized
    /\ mergeOverlapping
    /\ Len(pre.cursors) = 3
    /\ Len(mergeLog) = 2
    /\ ~ equalsSelection(mergeLog[2].winnerSelection, mergeLog[2].looserSelection)

\* C3: two non-empty selections are merged if and only if they strictly
\* overlap, the survivor then covering both; two that only touch both survive
\* unchanged; and every merge of two non-empty selections is one of
\* strictly overlapping selections.
C3_RangesMergeIffOverlap ==
    (Normalized /\ mergeOverlapping) =>
        /\ (Len(pre.cursors) = 2 /\ ~ isEmpty(PreSel(1)) /\ ~ isEmpty(PreSel(2))) =>
              IF StrictlyOverlap(PreSel(1), PreSel(2))
              THEN /\ Len(cursors) = 1
                   /\ equalsRange(Sel(1), plusRange(PreSel(1), PreSel(2)))
              ELSE Unchanged
        /\ \A k \in 1..Len(mergeLog) :
              (~ isEmpty(mergeLog[k].winnerSelection) /\ ~ isEmpty(mergeLog[k].looserSelection))
                  => StrictlyOverlap(mergeLog[k].winnerSelection, mergeLog[k].looserSelection)

\* [1,1]-[2,2] and [2,1]-[2,3] became the one cursor [1,1]-[2,3].
C3_Witness ==
    /\ Normalized
    /\ Len(pre.cursors) = 2
    /\ PreSel(1) = Selection(1, 1, 2, 2)
    /\ PreSel(2) = Selection(2, 1, 2, 3)
    /\ Len(cursors) = 1
    /\ Sel(1) = Selection(1, 1, 2, 3)

\* C4: a pair with at least one caret is merged exactly when the later
\* selection's start is at or before the earlier selection's end; two carets
\* at the same position become one cursor, two carets at (2,1) and (2,3)
\* are both kept.
C4_CaretsMergeWhenTouching ==
    (Normalized /\ mergeOverlapping) =>
        /\ (Len(pre.cursors) = 2 /\ (isEmpty(PreSel(1)) \/ isEmpty(PreSel(2)))) =>
              IF isBeforeOrEqual(getStartPosition(Later(PreSel(1), PreSel(2))),
                                 getEndPosition(Earlier(PreSel(1), PreSel(2))))
              THEN Len(cursors) = 1
              ELSE Unchanged
        /\ (Len(pre.cursors) = 2 /\ PreSel(1) = Caret(2, 1) /\ PreSel(2) = Caret(2, 1))
              => Len(cursors) = 1
        /\ (Len(pre.cursors) = 2 /\ PreSel(1) = Caret(2, 1) /\ PreSel(2) = Caret(2, 3))
              => Unchanged
        /\ \A k \in 1..Len(mergeLog) :
              (isEmpty(mergeLog[k].winnerSelection) \/ isEmpty(mergeLog[k].looserSelection))
                  => isBeforeOrEqual(
                         getStartPosition(Later(mergeLog[k].winnerSelection,
                                                mergeLog[k].looserSelection)),
                         getEndPosition(Earlier(mergeLog[k].winnerSelection,
                                                mergeLog[k].looserSelection)))

\* Two carets at (2,1) became one cursor.
C4_Witness ==
    /\ Normalized
    /\ Len(pre.cursors) = 2
    /\ PreSel(1) = Caret(2, 1)
    /\ PreSel(2) = Caret(2, 1)
    /\ Len(cursors) = 1
    /\ Sel(1) = Caret(2, 1)

\* normalize() was called on two carets at (2,1) and (2,2), merging enabled.
AdjacentCaretsNormalized ==
    /\ Normalized
    /\ mergeOverlapping
    /\ Len(pre.cursors) = 2
    /\ \/ PreSel(1) = Caret(2, 1) /\ PreSel(2) = Caret(2, 2)
       \/ PreSel(1) = Caret(2, 2) /\ PreSel(2) = Caret(2, 1)

\* C5 as stated: normalize() merges two carets at (2,1) and (2,2) into a
\* single cursor.
C5_AdjacentCaretsMerge == AdjacentCaretsNormalized => Len(cursors) = 1

\* C5 amended: normalize() keeps two carets at (2,1) and (2,2) as two
\* cursors and changes nothing.
C5_AdjacentCaretsKept == AdjacentCaretsNormalized => (Len(cursors) = 2 /\ Unchanged)

\* normalize() returned with the carets (2,1) and (2,2) still in place.
C5_Witness ==
    /\ AdjacentCaretsNormalized
    /\ Sel(1) = Caret(2, 1)
    /\ Sel(2) = Caret(2, 2)

\* C6: in every merge the cursor with the lower index survives and the one
\* with the higher index is removed and disposed, the survivor's range is
\* the smallest range containing both selections, and the other cursors
\* keep their order.
C6_LowerIndexSurvives ==
    Normalized =>
        /\ \A k \in 1..Len(mergeLog) :
              LET e == mergeLog[k]
              IN  /\ e.winnerIndex < e.looserIndex
                  /\ e.idsAfter = splice(e.idsBefore, e.looserIndex)
                  /\ e.idsAfter[e.winnerIndex + 1] = e.winnerId
                  /\ e.looserId \in disposed
                  /\ getStartPosition(e.merged) =
                         (IF isBefore(getStartPosition(e.looserSelection),
                                      getStartPosition(e.winnerSelection))
                          THEN getStartPosition(e.looserSelection)
                          ELSE getStartPosition(e.winnerSelection))
                  /\ getEndPosition(e.merged) =
                         (IF isBefore(getEndPosition(e.winnerSelection),
                                      getEndPosition(e.looserSelection))
                          THEN getEndPosition(e.looserSelection)
                          ELSE getEndPosition(e.winnerSelection))
        /\ disposed = { mergeLog[k].looserId : k \in 1..Len(mergeLog) }
        /\ Len(cursors) = Len(pre.cursors) - Len(mergeLog)
        /\ \A i \in 1..Len(cursors) : \A j \in 1..Len(cursors) :
              i < j => cursors[i].id < cursors[j].id

\* Among three cursors, one that sorts first lost against a selection of
\* lower index, and the survivor's range is larger than either selection.
C6_Witness ==
    /\ Normalized
    /\ Len(pre.cursors) = 3
    /\ \E k \in 1..Len(mergeLog) :
          /\ isBefore(getStartPosition(mergeLog[k].looserSelection),
                      getStartPosition(mergeLog[k].winnerSelection))
          /\ ~ equalsRange(mergeLog[k].merged, mergeLog[k].winnerSelection)
          /\ ~ equalsRange(mergeLog[k].merged, mergeLog[k].looserSelection)
          /\ Len(mergeLog[k].idsAfter) = 2

\* C7: the merged selection has the loser's direction if the loser is the
\* most recently added cursor, and the winner's direction otherwise.
C7_DirectionOfMerge ==
    Normalized =>
        \A k \in 1..Len(mergeLog) :
            LET e == mergeLog[k]
            IN  IsLTR(e.merged) =
                    (IF e.looserIndex = e.lastAddedBefore
                     THEN IsLTR(e.looserSelection)
                     ELSE IsLTR(e.winnerSelection))

\* The most recently added cursor lost and imposed its direction on a
\* winner of the opposite direction.
C7_Witness ==
    /\ Normalized
    /\ \E k \in 1..Len(mergeLog) :
          /\ mergeLog[k].looserIndex = mergeLog[k].lastAddedBefore
          /\ IsLTR(mergeLog[k].looserSelection) # IsLTR(mergeLog[k].winnerSelection)
          /\ IsLTR(mergeLog[k].merged) = IsLTR(mergeLog[k].looserSelection)

\* C8 as stated: in every merge whose loser is the most recently added
\* cursor, lastAddedCursorIndex designates the winner afterwards, also when
\* the two selections are identical.
C8_MarkerTransfers ==
    Normalized =>
        \A k \in 1..Len(mergeLog) :
            mergeLog[k].looserIndex = mergeLog[k].lastAddedBefore
                => mergeLog[k].lastAddedAfter = mergeLog[k].winnerIndex

\* C9: normalize() changes nothing (cursors and their states, tracked
\* ranges, lastAddedCursorIndex) when there is a single cursor, and when
\* multiCursorMergeOverlapping is off.
C9_NormalizeNoOp ==
    (Normalized /\ (Len(pre.cursors) = 1 \/ ~ mergeOverlapping)) => Unchanged

\* With merging off, normalize() returned leaving two colliding cursors.
C9_Witness ==
    /\ Normalized
    /\ ~ mergeOverlapping
    /\ \E i \in 1..Len(cursors) : \E j \in 1..Len(cursors) :
          i # j /\ Collide(Sel(i), Sel(j))

\* Cursor k holds the validated form of the state s, in both spaces.
HoldsValidated(c, s) ==
    /\ c.modelState.selectionStart = validateRange(s.modelState.selectionStart)
    /\ c.modelState.position = validatePosition(s.modelState.position)
    /\ c.modelState.selectionStartKind = s.modelState.selectionStartKind
    /\ c.viewState.position =
           convertModelPositionToViewPosition(validatePosition(s.modelState.position))
    /\ getStartPosition(c.viewState.selectionStart) =
           convertModelPositionToViewPosition(
               getStartPosition(validateRange(s.modelState.selectionStart)))
    /\ getEndPosition(c.viewState.selectionStart) =
           convertModelPositionToViewPosition(
               getEndPosition(validateRange(s.modelState.selectionStart)))

\* C10: setStates(states) leaves exactly Len(states) cursors, cursor i
\* holding the validated states[i]; the cursors that existed stay where they
\* were; a longer list appends new cursors at the end and
\* lastAddedCursorIndex designates the last of them; a shorter list disposes
\* exactly the tail; setStates(null) changes nothing.
C10_SetStates ==
    [][ /\ op' = "setStates" =>
            /\ Len(cursors') = Len(arg')
            /\ \A k \in 1..Len(arg') :
                  /\ HoldsValidated(cursors'[k], arg'[k])
                  /\ cursors'[k].id = k - 1
            /\ Len(arg') > Len(cursors) =>
                  (lastAddedCursorIndex' = Len(arg') - 1 /\ disposed' = {})
            /\ Len(arg') <= Len(cursors) =>
                  disposed' = Len(arg')..(Len(cursors) - 1)
        /\ op' = "setStatesNull" =>
            /\ cursors' = Current.cursors
            /\ lastAddedCursorIndex' = lastAddedCursorIndex
            /\ trackedRanges' = trackedRanges
            /\ disposed' = {}
      ]_vars

\* setStates shrank the collection from three cursors to two, and clamped
\* the second state into the document.
C10_Witness ==
    /\ op = "setStates"
    /\ Len(arg) = 2
    /\ disposed = {2}
    /\ Len(cursors) = 2
    /\ cursors[2].modelState.selectionStart # arg[2].modelState.selectionStart

\* C11: killSecondaryCursors() leaves exactly one cursor, the primary one
\* with the model and view state it had, disposes every former secondary
\* cursor, and getLastAddedCursorIndex() then returns 0.
C11_KillSecondaryCursors ==
    [][ op' = "killSecondaryCursors" =>
            /\ Len(cursors') = 1
            /\ cursors'[1].id = 0
            /\ cursors'[1].modelState = cursors[1].modelState
            /\ cursors'[1].viewState = cursors[1].viewState
            /\ disposed' = 1..(Len(cursors) - 1)
            /\ getLastAddedCursorIndex(cursors', lastAddedCursorIndex') = 0
      ]_vars

\* killSecondaryCursors() disposed two secondary cursors and kept a primary
\* cursor that holds a selection.
C11_Witness ==
    /\ op = "killSecondaryCursors"
    /\ disposed = {1, 2}
    /\ Len(cursors) = 1
    /\ ~ isEmpty(Sel(1))

\* Every cursor of the collection tracks its selection.
AllTracking == \A k \in 1..Len(cursors) : cursors[k].trackSelection

\* The tracked-range table holds one entry per cursor, under the cursor's
\* id, with the cursor's model selection as its range, and nothing else.
TrackedExactly ==
    /\ \A k \in 1..Len(cursors) :
          /\ cursors[k].selTrackedRange \in DOMAIN trackedRanges
          /\ trackedRanges[cursors[k].selTrackedRange] = asRange(Sel(k))
    /\ \A i \in 1..Len(cursors) : \A j \in 1..Len(cursors) :
          i # j => cursors[i].selTrackedRange # cursors[j].selTrackedRange
    /\ DOMAIN trackedRanges = { cursors[k].selTrackedRange : k \in 1..Len(cursors) }

\* C12: while every cursor tracks its selection, after each operation the
\* tracked-range table holds exactly one entry per live cursor and none of a
\* removed cursor; a cursor that had an entry keeps its id when it is
\* updated; after dispose() the table holds no entry of the collection.
C12_TrackedRanges ==
    [][ /\ (op' # "dispose" /\ AllTracking') => TrackedExactly'
        /\ op' \in {"setStates", "killSecondaryCursors", "normalize"} =>
              \A j \in 1..Len(cursors') :
                  (/\ cursors'[j].id < Len(cursors)
                   /\ cursors'[j].trackSelection
                   /\ cursors[cursors'[j].id + 1].selTrackedRange # NullId)
                      => cursors'[j].selTrackedRange =
                             cursors[cursors'[j].id + 1].selTrackedRange
        /\ op' = "dispose" =>
              /\ DOMAIN trackedRanges' = {}
              /\ \A k \in 1..Len(cursors') : cursors'[k].selTrackedRange = NullId
      ]_vars

\* With tracking on, normalize() merged two of three cursors away and the
\* table holds the one entry of the cursor that is left.
C12_Witness ==
    /\ Normalized
    /\ Len(pre.cursors) = 3
    /\ Len(mergeLog) = 2
    /\ AllTracking
    /\ Len(cursors) = 1
    /\ TrackedExactly
    /\ Cardinality(DOMAIN trackedRanges) = 1


(***************************************************************************)
(* The single cursor (SpecCursor).                                         *)
(***************************************************************************)
\* The tracked range of cursors[1] is registered and is its model selection.
TracksItsSelection(cs, table) ==
    /\ cs[1].selTrackedRange # NullId
    /\ cs[1].selTrackedRange \in DOMAIN table
    /\ table[cs[1].selTrackedRange] = asRange(selection(cs[1].modelState))

\* C13: startTrackingSelection at once registers the cursor's current model
\* selection as its tracked range; stopTrackingSelection releases the
\* tracked range; and while tracking is stopped a setState or an
\* ensureValidState on the cursor registers no tracked range.
C13_Tracking ==
    [][ /\ op' = "startTrackingSelection" =>
             /\ cursors'[1].trackSelection
             /\ TracksItsSelection(cursors', trackedRanges')
             /\ cursors'[1].modelState = cursors[1].modelState
        /\ op' = "stopTrackingSelection" =>
             /\ ~ cursors'[1].trackSelection
             /\ cursors'[1].selTrackedRange = NullId
             /\ cursors[1].selTrackedRange \notin DOMAIN trackedRanges'
             /\ DOMAIN trackedRanges' = {}
        /\ (op' \in {"setState", "ensureValidState"} /\ ~ cursors[1].trackSelection) =>
             /\ ~ cursors'[1].trackSelection
             /\ cursors'[1].selTrackedRange = NullId
             /\ trackedRanges' = trackedRanges
             /\ DOMAIN trackedRanges' = {}
      ]_vars

\* A state was set while tracking was stopped, and nothing is registered.
C13_Witness ==
    /\ op = "setState"
    /\ ~ cursors[1].trackSelection
    /\ cursors[1].modelState.position = Position(2, 2)
    /\ ~ isEmpty(selection(cursors[1].modelState))
    /\ DOMAIN trackedRanges = {}

\* C14: readSelectionFromMarkers returns the cursor's tracked range as a
\* selection with the direction of the cursor's current model selection;
\* when the model selection is empty and the tracked range has grown
\* non-empty it returns the empty selection at the tracked range's end; a
\* cursor whose model selection is a caret never gets a non-empty selection.
C14_ReadSelectionFromMarkers ==
    op = "readSelectionFromMarkers" =>
        LET range == trackedRanges[cursors[1].selTrackedRange]
            sel == selection(cursors[1].modelState)
            res == arg[1]
        IN  /\ (isEmpty(sel) /\ ~ isEmpty(range)) =>
                 /\ getSelectionStart(res) = getEndPosition(range)
                 /\ getPosition(res) = getEndPosition(range)
            /\ ~ (isEmpty(sel) /\ ~ isEmpty(range)) =>
                 /\ asRange(res) = range
                 /\ IF getSelectionStart(sel) = getStartPosition(sel)
                    THEN /\ getSelectionStart(res) = getStartPosition(range)
                         /\ getPosition(res) = getEndPosition(range)
                    ELSE /\ getSelectionStart(res) = getEndPosition(range)
                         /\ getPosition(res) = getStartPosition(range)
            /\ isEmpty(sel) => isEmpty(res)

\* A caret whose tracked range grew when a character was typed at it.
C14_Witness ==
    /\ op = "readSelectionFromMarkers"
    /\ isEmpty(selection(cursors[1].modelState))
    /\ trackedRanges[cursors[1].selTrackedRange] = Range(2, 2, 2, 3)
    /\ arg[1] = Caret(2, 3)

\* A right-to-left selection read back from a range that an edit has moved.
C14_WitnessRTL ==
    /\ op = "readSelectionFromMarkers"
    /\ selection(cursors[1].modelState) = Selection(2, 2, 2, 1)
    /\ arg[1] = Selection(2, 3, 2, 1)

\* The cursor's view state and model state describe the same selection.
SameLogicalState(c) ==
    /\ convertViewPositionToModelPosition(c.viewState.position) = c.modelState.position
    /\ convertViewRangeToModelRange(c.viewState.selectionStart) = c.modelState.selectionStart
    /\ c.viewState.selectionStartKind = c.modelState.selectionStartKind
    /\ c.viewState.selectionStartLeftoverVisibleColumns
          = c.modelState.selectionStartLeftoverVisibleColumns
    /\ c.viewState.leftoverVisibleColumns = c.modelState.leftoverVisibleColumns

\* C15: after every Cursor.setState (model only, view only or both) and every
\* ensureValidState, viewState and modelState describe the same logical
\* selection: viewState's position and selection-start range converted to
\* document coordinates are modelState's; the side that was not supplied is
\* derived from the supplied one.
C15_SameLogicalSelection ==
    /\ op \in {"setState", "ensureValidState", "setStates"} =>
          \A k \in 1..Len(cursors) : SameLogicalState(cursors[k])
    /\ (op = "setState" /\ arg[1].viewState = Null) =>
          /\ cursors[1].modelState.position = validatePosition(arg[1].modelState.position)
          /\ cursors[1].viewState.position
                = convertModelPositionToViewPosition(cursors[1].modelState.position)
          /\ cursors[1].viewState.selectionStart
                = fromPositions(
                      convertModelPositionToViewPosition(
                          getStartPosition(cursors[1].modelState.selectionStart)),
                      convertModelPositionToViewPosition(
                          getEndPosition(cursors[1].modelState.selectionStart)))
    /\ (op = "setState" /\ arg[1].modelState = Null) =>
          /\ cursors[1].modelState.position
                = validatePosition(convertViewPositionToModelPosition(arg[1].viewState.position))
          /\ cursors[1].modelState.selectionStart
                = validateRange(convertViewRangeToModelRange(arg[1].viewState.selectionStart))

\* Both states were supplied and disagreed: the view position (9,9) is not
\* where the model position (2,1) is, and the stored view state follows the
\* model state.
C15_Witness ==
    /\ op = "setState"
    /\ arg[1].modelState # Null
    /\ arg[1].viewState # Null
    /\ arg[1].viewState.position = Position(9, 9)
    /\ cursors[1].modelState.position = Position(2, 1)
    /\ cursors[1].viewState.position = Position(2, 1)

\* A document-space state that validation leaves as it is.
ValidModelState(m) ==
    /\ validatePosition(m.position) = m.position
    /\ validateRange(m.selectionStart) = m.selectionStart

\* The step is setState(null, v) with v the cursor's own view state, right
\* after setState(m, null) with a valid m.
RoundTripStep ==
    /\ op = "setState"
    /\ arg[1].viewState = Null
    /\ ValidModelState(arg[1].modelState)
    /\ op' = "setState"
    /\ arg'[1].modelState = Null
    /\ arg'[1].viewState = cursors[1].viewState

\* C16: for a valid document-space state m, document and view unchanged,
\* setState(m, null) followed by setState(null, v) with v the view state just
\* derived leaves modelState equal to m (position, selection-start range,
\* kind and both leftover-column values).
C16_RoundTrip ==
    [][ RoundTripStep =>
            /\ cursors[1].modelState = arg[1].modelState
            /\ cursors'[1].modelState = arg[1].modelState
            /\ cursors'[1].viewState = cursors[1].viewState
      ]_vars

\* The state after such a round trip of a selection whose head sits where
\* line 2 wraps, leftover columns 1 and 2.
C16_Witness ==
    /\ op = "setState"
    /\ arg[1].modelState = Null
    /\ arg[1].viewState = cursors[1].viewState
    /\ lineLength = 2
    /\ cursors[1].modelState
          = SingleCursorState(Range(2, 1, 2, 2), "Word", 1, Position(2, 2), 2)
    /\ cursors[1].viewState.position = Position(3, 1)

\* The leftover columns the cursor stores are those of `supplied` where
\* validation left `stored` with the supplied position (selection-start
\* range), and zero where it changed it.
LeftoversKeptOrReset(supplied, stored) ==
    /\ stored.leftoverVisibleColumns
          = IF stored.position = supplied.position
            THEN supplied.leftoverVisibleColumns ELSE 0
    /\ stored.selectionStartLeftoverVisibleColumns
          = IF stored.selectionStart = supplied.selectionStart
            THEN supplied.selectionStartLeftoverVisibleColumns ELSE 0

\* C17 as stated: after every setState (model only, view only or both) the
\* leftover columns are the supplied ones where validation left the position
\* (the selection-start range) unchanged, and zero where it changed it.
C17_LeftoversResetEverywhere ==
    op = "setState" =>
        IF arg[1].modelState # Null
        THEN LeftoversKeptOrReset(arg[1].modelState, cursors[1].modelState)
        ELSE LeftoversKeptOrReset(arg[1].viewState, cursors[1].viewState)

\* C17: after a setState that supplies a model state (alone or with a view
\* state) the leftover columns are the supplied model state's where document
\* validation left the position (the selection-start range) unchanged and
\* zero where it changed it; after a setState that supplies a view state
\* only they are the view state's as _validateViewState returns it, also
\* where validation moved the position or the selection-start range.  Both
\* stored states carry the same values.
C17_LeftoversResetForModelState ==
    op = "setState" =>
        /\ arg[1].modelState # Null =>
              LeftoversKeptOrReset(arg[1].modelState, cursors[1].modelState)
        /\ arg[1].modelState = Null =>
              /\ cursors[1].modelState.leftoverVisibleColumns
                    = validateViewState(arg[1].viewState).leftoverVisibleColumns
              /\ cursors[1].modelState.selectionStartLeftoverVisibleColumns
                    = validateViewState(arg[1].viewState).selectionStartLeftoverVisibleColumns
        /\ cursors[1].viewState.leftoverVisibleColumns
              = cursors[1].modelState.leftoverVisibleColumns
        /\ cursors[1].viewState.selectionStartLeftoverVisibleColumns
              = cursors[1].modelState.selectionStartLeftoverVisibleColumns

\* A model state whose position was clamped and whose selection-start range
\* was not: one leftover value reset, the other kept.
C17_Witness ==
    /\ op = "setState"
    /\ arg[1].modelState # Null
    /\ arg[1].modelState.position # cursors[1].modelState.position
    /\ arg[1].modelState.selectionStart = cursors[1].modelState.selectionStart
    /\ arg[1].modelState.leftoverVisibleColumns = 2
    /\ cursors[1].modelState.leftoverVisibleColumns = 0
    /\ cursors[1].modelState.selectionStartLeftoverVisibleColumns = 1

\* A view state alone whose position (9,9) was clamped into the view: the
\* leftover value 2 is still there.
C17_ViewOnlyKeeps ==
    /\ op = "setState"
    /\ arg[1].modelState = Null
    /\ arg[1].viewState.position = Position(9, 9)
    /\ cursors[1].viewState.position # Position(9, 9)
    /\ cursors[1].viewState.leftoverVisibleColumns = 2

\* C18: setState takes every input, also positions and selection-start
\* ranges beyond the last line or column, and stores a model state whose
\* position and selection-start range are legal document coordinates (fixed
\* points of validatePosition / validateRange); after the document shrinks,
\* ensureValidState restores this for every cursor of the collection.
C18_StoredStateIsLegal ==
    /\ op \in {"setState", "setStates", "ensureValidState"} =>
          \A k \in 1..Len(cursors) : ValidModelState(cursors[k].modelState)
    /\ (op = "setState" /\ arg[1].modelState # Null) =>
          /\ cursors[1].modelState.position = validatePosition(arg[1].modelState.position)
          /\ cursors[1].modelState.selectionStart
                = validateRange(arg[1].modelState.selectionStart)
    /\ \A k \in 1..Len(cursors) :
          /\ cursors[k].modelState.position.lineNumber \in 1..getLineCount
          /\ cursors[k].modelState.position.column \in 1..(MaxLineLength + 1)

\* Line 2 has lost all its characters under two carets that stood at column
\* 2 or beyond, and ensureValidState has brought both to column 1.
C18_Witness ==
    /\ op = "ensureValidState"
    /\ Len(cursors) = 2
    /\ lineLength = 0
    /\ \A k \in 1..2 : cursors[k].modelState.position = Position(2, 1)
    /\ \A k \in 1..2 : cursors[k].viewState.position = Position(2, 1)

\* A position beyond the last line was handed to setState and clamped to
\* the end of the document.
C18_WitnessBeyond ==
    /\ op = "setState"
    /\ arg[1].modelState # Null
    /\ arg[1].modelState.position = Position(3, 1)
    /\ cursors[1].modelState.position = Position(2, lineLength + 1)

\* C19: with the document and the view layout unchanged since the cursors'
\* states were last set, ensureValidState leaves modelState and viewState
\* (positions, selection-start ranges, kinds, leftover columns) exactly as
\* they were; calling it twice is calling it once.
C19_EnsureValidStateKeeps ==
    [][ /\ (op' = "ensureValidState" /\ ~ layoutChanged) =>
             \A k \in 1..Len(cursors) :
                 /\ cursors'[k].modelState = cursors[k].modelState
                 /\ cursors'[k].viewState = cursors[k].viewState
        /\ (op' = "ensureValidState" /\ op = "ensureValidState") =>
             /\ cursors' = cursors
             /\ trackedRanges' = trackedRanges
      ]_vars

\* ensureValidState has run on a cursor that sits at the end of the first
\* wrapped view line of line 2, a view position that deriving the view state
\* from the model state would not give, with leftover columns 1 and 2.
C19_Witness ==
    /\ op = "ensureValidState"
    /\ ~ layoutChanged
    /\ lineLength = 2
    /\ Len(cursors) = 1
    /\ cursors[1].viewState.position = Position(2, 2)
    /\ cursors[1].modelState.position = Position(2, 2)
    /\ cursors[1].modelState.leftoverVisibleColumns = 2
    /\ cursors[1].modelState.selectionStartLeftoverVisibleColumns = 1
    /\ cursors[1].modelState.selectionStartKind = "Word"

(***************************************************************************)
(* deleteRight (SpecDelete).                                               *)
(***************************************************************************)
\* C20: deleteRight gives one command per selection, in the order of the
\* selections: for a non-empty selection the command deletes exactly that
\* selection; for an empty one it deletes the span between the caret and the
\* position one move-right step after it; when that span is empty (caret at
\* the end of the document) the command is null.
C20_DeleteRight ==
    op = "deleteRight" =>
        LET sels == getSelections(cursors)
            commands == arg[1].commands
        IN  /\ Len(commands) = Len(sels)
            /\ \A i \in 1..Len(sels) :
                  IF ~ isEmpty(sels[i])
                  THEN commands[i] = [range |-> asRange(sels[i]), text |-> ""]
                  ELSE LET p == getPosition(sels[i])
                       IN  IF moveRight(p) = p
                           THEN commands[i] = Null
                           ELSE commands[i]
                                  = [range |-> fromPositions(p, moveRight(p)), text |-> ""]

\* A right-to-left selection, a caret in front of the surrogate pair and a
\* caret at the end of the document, in this order.
C20_Witness ==
    /\ op = "deleteRight"
    /\ getSelections(cursors)
          = << Selection(2, 3, 2, 1), Selection(2, 1, 2, 1), Selection(2, 3, 2, 3) >>
    /\ arg[1].commands
          = << [range |-> Range(2, 1, 2, 3), text |-> ""],
               [range |-> Range(2, 1, 2, 3), text |-> ""],
               Null >>

(***************************************************************************)
(* deleteLeft and deleteRight (SpecDeleteLeft).                            *)
(***************************************************************************)
\* The inputs and the result of the deleteLeft call that led here.
In == arg[1]

\* What isAutoClosingPairDelete answered for the inputs of the call.
PairDelete == In.pairDelete

\* Some command of the list deletes across a line boundary.
CrossesLine(commands) ==
    \E i \in 1..Len(commands) :
        /\ commands[i] # Null
        /\ commands[i].range.startLineNumber # commands[i].range.endLineNumber

\* C21: deleteRight (deleteLeft when no pair delete applies) returns
\* shouldPushStackElementBefore = false exactly when the previous edit
\* operation was DeletingRight (DeletingLeft) and no emitted delete span
\* crosses a line boundary; cursors that yield no command leave the flag
\* at its default.
C21_UndoGrouping ==
    /\ op = "deleteRight" =>
          (arg[1].shouldPushStackElementBefore
              <=> ~ (arg[2] = "DeletingRight" /\ ~ CrossesLine(arg[1].commands)))
    /\ (op = "deleteLeft" /\ ~ PairDelete) =>
          (In.result.shouldPushStackElementBefore
              <=> ~ (In.prevEditOperationType = "DeletingLeft"
                     /\ ~ CrossesLine(In.result.commands)))

\* deleteLeft after a deleteLeft with carets at (1,1) and (1,6): the first
\* yields no command, the second deletes x, and the edit is grouped.
C21_Witness ==
    /\ op = "deleteLeft"
    /\ In.prevEditOperationType = "DeletingLeft"
    /\ In.model = IndentDocument
    /\ In.selections = << Selection(1, 1, 1, 1), Selection(1, 6, 1, 6) >>
    /\ In.result.commands = << Null, [range |-> Range(1, 5, 1, 6), text |-> ""] >>
    /\ In.result.shouldPushStackElementBefore = FALSE

\* deleteRight after a deleteRight with a caret at the end of line 1: the
\* span crosses to line 2 and the edit is not grouped.
C21_WitnessRight ==
    /\ op = "deleteRight"
    /\ arg[2] = "DeletingRight"
    /\ getSelections(cursors) = << Selection(1, 1, 1, 1) >>
    /\ arg[1].shouldPushStackElementBefore = TRUE

\* The caret of an empty selection sits between a configured opening
\* delimiter and its closing delimiter, and the setting of the delimiter's
\* class (quotes or brackets) is not 'never'.
InsidePair(sel) ==
    /\ isEmpty(sel)
    /\ getPosition(sel).column >= 2
    /\ getPosition(sel).column <= Len(In.model[getPosition(sel).lineNumber])
    /\ LET line == In.model[getPosition(sel).lineNumber]
           before == line[getPosition(sel).column - 1]
           after == line[getPosition(sel).column]
           table == In.config.autoClosingPairsOpenByEnd
       IN  /\ before \in DOMAIN table
           /\ \E k \in DOMAIN table[before] :
                 table[before][k].open = before /\ table[before][k].close = after
           /\ IF before \in {"'", "DQ", "BQ"}
              THEN In.config.autoClosingQuotes # "never"
              ELSE In.config.autoClosingBrackets # "never"

\* C22: isAutoClosingPairDelete is an all-or-nothing decision.  It is true
\* only if pair-aware delete is not 'never', bracket and quote auto-closing
\* are not both 'never', and every selection is empty with its caret at a
\* column from 2 to the line length, between a configured opening delimiter
\* and the closing delimiter of one of its candidate pairs, the setting of
\* the delimiter's class not being 'never'; with the policy 'always' these
\* conditions are also sufficient.  One cursor failing makes it false.
C22_PairDeleteAllOrNothing ==
    op = "deleteLeft" =>
        /\ PairDelete =>
              /\ In.config.autoClosingDelete # "never"
              /\ ~ (In.config.autoClosingBrackets = "never"
                    /\ In.config.autoClosingQuotes = "never")
              /\ \A i \in 1..Len(In.selections) : InsidePair(In.selections[i])
        /\ (/\ In.config.autoClosingDelete = "always"
            /\ ~ (In.config.autoClosingBrackets = "never"
                  /\ In.config.autoClosingQuotes = "never")
            /\ \A i \in 1..Len(In.selections) : InsidePair(In.selections[i]))
              => PairDelete

\* A caret inside () and a caret between ) and ' : the first qualifies, the
\* second does not, and the answer is false for both.
C22_Witness ==
    /\ op = "deleteLeft"
    /\ In.config.autoClosingDelete = "always"
    /\ In.config.autoClosingBrackets # "never"
    /\ In.config.autoClosingQuotes # "never"
    /\ In.selections = << Selection(1, 2, 1, 2), Selection(1, 3, 1, 3) >>
    /\ ~ PairDelete

\* A caret inside () and a caret inside '' : the answer is true.
C22_WitnessTrue ==
    /\ op = "deleteLeft"
    /\ In.config.autoClosingDelete = "always"
    /\ In.selections = << Selection(1, 2, 1, 2), Selection(1, 4, 1, 4) >>
    /\ PairDelete

\* Some supplied auto-closed range starts at the position.
StartsAutoClosedRange(position) ==
    \E j \in 1..Len(In.autoClosedCharacters) :
        getStartPosition(In.autoClosedCharacters[j]) = position

\* The position of the character read immediately before the caret.
BeforePosition(sel) == Position(getPosition(sel).lineNumber, getPosition(sel).column - 1)

\* C23 as stated: with the policy 'auto', isAutoClosingPairDelete is true
\* only if for every cursor some supplied range starts at the position of
\* the character before the caret.
C23_BeforePositionAutoClosed ==
    (op = "deleteLeft" /\ In.config.autoClosingDelete = "auto" /\ PairDelete) =>
        \A i \in 1..Len(In.selections) :
            StartsAutoClosedRange(BeforePosition(In.selections[i]))

\* C23: with the policy 'auto', isAutoClosingPairDelete is true only if for
\* every cursor some supplied range starts at the caret's own position, which
\* is where the closing delimiter after the caret starts; together with the
\* conditions on the pairs this is also sufficient.  With the policy 'always'
\* the supplied set is not consulted.
C23_CaretPositionAutoClosed ==
    op = "deleteLeft" =>
        /\ In.config.autoClosingDelete = "auto" =>
              (PairDelete <=>
                  /\ ~ (In.config.autoClosingBrackets = "never"
                        /\ In.config.autoClosingQuotes = "never")
                  /\ \A i \in 1..Len(In.selections) :
                        /\ InsidePair(In.selections[i])
                        /\ StartsAutoClosedRange(getPosition(In.selections[i])))
        /\ In.config.autoClosingDelete = "always" =>
              (PairDelete <=>
                  /\ ~ (In.config.autoClosingBrackets = "never"
                        /\ In.config.autoClosingQuotes = "never")
                  /\ \A i \in 1..Len(In.selections) : InsidePair(In.selections[i]))

\* Policy 'auto', carets inside () and inside '', and the ) and the second '
\* are the auto-closed ranges: the answer is true.
C23_Witness ==
    /\ op = "deleteLeft"
    /\ In.config.autoClosingDelete = "auto"
    /\ In.selections = << Selection(1, 2, 1, 2), Selection(1, 4, 1, 4) >>
    /\ In.autoClosedCharacters = << Range(1, 2, 1, 3), Range(1, 4, 1, 5) >>
    /\ PairDelete

\* Policy 'auto', the same carets, and the ( and the first ' are the supplied
\* ranges: the answer is false.
C23_WitnessBefore ==
    /\ op = "deleteLeft"
    /\ In.config.autoClosingDelete = "auto"
    /\ In.config.autoClosingBrackets # "never"
    /\ In.config.autoClosingQuotes # "never"
    /\ In.selections = << Selection(1, 2, 1, 2), Selection(1, 4, 1, 4) >>
    /\ In.autoClosedCharacters = << Range(1, 1, 1, 2), Range(1, 3, 1, 4) >>
    /\ ~ PairDelete

\* C24: whenever isAutoClosingPairDelete holds for the selections, deleteLeft
\* returns for every cursor a non-null command deleting exactly the two
\* characters [column-1, column+1) of the caret's line, and
\* shouldPushStackElementBefore = true whatever the previous edit operation
\* was, DeletingLeft included.
C24_PairDeleteSpans ==
    (op = "deleteLeft" /\ PairDelete) =>
        /\ In.result.shouldPushStackElementBefore = TRUE
        /\ Len(In.result.commands) = Len(In.selections)
        /\ \A i \in 1..Len(In.selections) :
              LET p == getPosition(In.selections[i])
              IN  /\ In.result.commands[i] # Null
                  /\ In.result.commands[i].text = ""
                  /\ getStartPosition(In.result.commands[i].range)
                        = Position(p.lineNumber, p.column - 1)
                  /\ getEndPosition(In.result.commands[i].range)
                        = Position(p.lineNumber, p.column + 1)

\* deleteLeft after a deleteLeft with carets inside '' and inside (): both
\* pairs are deleted and a fresh undo boundary is asked for.
C24_Witness ==
    /\ op = "deleteLeft"
    /\ PairDelete
    /\ In.prevEditOperationType = "DeletingLeft"
    /\ In.selections = << Selection(1, 4, 1, 4), Selection(1, 2, 1, 2) >>
    /\ In.result.commands
          = << [range |-> Range(1, 3, 1, 5), text |-> ""],
               [range |-> Range(1, 1, 1, 3), text |-> ""] >>
    /\ In.result.shouldPushStackElementBefore

\* The tab-stop case of getDeleteRange for selection sel of the input.
InTabStopCase(sel) ==
    /\ In.config.useTabStops
    /\ isEmpty(sel)
    /\ getPosition(sel).column > 1
    /\ LET lineContent == getLineContent(In.model, getPosition(sel).lineNumber)
       IN  \/ firstNonWhitespaceIndex(lineContent) = -1
           \/ getPosition(sel).column <= firstNonWhitespaceIndex(lineContent) + 1

\* The visible column of a position of the input document.
VisibleColumn(lineNumber, column) ==
    visibleColumnFromColumn(getLineContent(In.model, lineNumber), column, In.config.tabSize)

\* The largest multiple of indentSize strictly below the caret's visible column.
PreviousIndentStop(sel) ==
    LET v == VisibleColumn(getPosition(sel).lineNumber, getPosition(sel).column)
    IN  CHOOSE s \in 0..v : /\ s % In.config.indentSize = 0
                            /\ s < v
                            /\ \A t \in 0..v : (t % In.config.indentSize = 0 /\ t < v) => t <= s

\* The delete span of cursor i is on the caret's line, ends at the caret,
\* starts at the column whose visible column is the previous indent stop, is
\* not empty and not wider than one indent level.
SnapsToPreviousIndentStop(i) ==
    LET sel == In.selections[i]
        p == getPosition(sel)
        command == In.result.commands[i]
    IN  /\ command # Null
        /\ command.text = ""
        /\ command.range.startLineNumber = p.lineNumber
        /\ getEndPosition(command.range) = p
        /\ VisibleColumn(p.lineNumber, command.range.startColumn) = PreviousIndentStop(sel)
        /\ command.range.startColumn < p.column
        /\ VisibleColumn(p.lineNumber, p.column)
             - VisibleColumn(p.lineNumber, command.range.startColumn) <= In.config.indentSize

\* Some column of the caret's line has the previous indent stop as its
\* visible column (the stop is not inside a tab character).
StopIsColumnBoundary(sel) ==
    \E c \in 1..getPosition(sel).column :
        VisibleColumn(getPosition(sel).lineNumber, c) = PreviousIndentStop(sel)

\* C25 as stated: in the tab-stop case of deleteLeft the delete span lies on
\* the caret's line, ends at the caret, starts at the column of the previous
\* indent stop (the largest multiple of indentSize strictly below the caret's
\* visible column), is never empty and never wider than one indent level.
C25_SnapsToIndentStopAlways ==
    (op = "deleteLeft" /\ ~ PairDelete) =>
        \A i \in 1..Len(In.selections) :
            InTabStopCase(In.selections[i]) => SnapsToPreviousIndentStop(i)

\* C25, amended: the same, whenever the previous indent stop is a column
\* boundary of the line, which it always is when the tab size equals the
\* indent size.
C25_SnapsToIndentStop ==
    (op = "deleteLeft" /\ ~ PairDelete) =>
        /\ \A i \in 1..Len(In.selections) :
              (InTabStopCase(In.selections[i]) /\ StopIsColumnBoundary(In.selections[i]))
                  => SnapsToPreviousIndentStop(i)
        /\ In.config.tabSize = In.config.indentSize =>
              \A i \in 1..Len(In.selections) :
                  InTabStopCase(In.selections[i]) => StopIsColumnBoundary(In.selections[i])

\* Indent size 4, four leading spaces, caret at column 5: columns 1..5.
C25_Witness ==
    /\ op = "deleteLeft"
    /\ ~ PairDelete
    /\ In.config.useTabStops
    /\ In.config.indentSize = 4
    /\ In.config.tabSize = 4
    /\ In.selections = << Selection(1, 5, 1, 5) >>
    /\ In.result.commands = << [range |-> Range(1, 1, 1, 5), text |-> ""] >>

\* A tab of width 4 with indent size 2: the whole tab is deleted, two indent
\* levels wide.
C25_WitnessWide ==
    /\ op = "deleteLeft"
    /\ In.config.useTabStops
    /\ In.config.tabSize = 4
    /\ In.config.indentSize = 2
    /\ In.selections = << Selection(2, 2, 2, 2) >>
    /\ In.result.commands = << [range |-> Range(2, 1, 2, 2), text |-> ""] >>

\* A tab of width 4 with indent size 3: the span is empty, nothing is deleted.
C25_WitnessEmpty ==
    /\ op = "deleteLeft"
    /\ In.config.useTabStops
    /\ In.config.tabSize = 4
    /\ In.config.indentSize = 3
    /\ In.selections = << Selection(2, 2, 2, 2) >>
    /\ In.result.commands = << Null >>

\* The text between two columns of a line of the input document.
TextBetween(lineNumber, startColumn, endColumn) ==
    SubSeq(getLineContent(In.model, lineNumber), startColumn, endColumn - 1)

\* The span of `command` is one step to the left of caret p on p's line: one
\* code unit, or the two halves of a surrogate pair.
OneStepLeft(command, p) ==
    /\ command # Null
    /\ command.text = ""
    /\ command.range.startLineNumber = p.lineNumber
    /\ getEndPosition(command.range) = p
    /\ LET removed == TextBetween(p.lineNumber, command.range.startColumn, p.column)
           before == TextBetween(p.lineNumber, 1, command.range.startColumn)
       IN  \/ removed = << "HI", "LO" >>
           \/ /\ Len(removed) = 1
              /\ ~ (removed = << "LO" >> /\ Len(before) > 0 /\ before[Len(before)] = "HI")

\* C26: deleteLeft without pair-delete and outside the tab-stop case deletes a
\* non-empty selection as it is; for an empty selection at column > 1 it
\* deletes one step to the left on the same line; at column 1 of a line > 1
\* it deletes from the end of the previous line to (line, 1); at (1,1) the
\* command of that cursor is null.
C26_PlainDeleteLeft ==
    (op = "deleteLeft" /\ ~ PairDelete) =>
        /\ Len(In.result.commands) = Len(In.selections)
        /\ \A i \in 1..Len(In.selections) :
              LET sel == In.selections[i]
                  p == getPosition(sel)
                  command == In.result.commands[i]
              IN  ~ InTabStopCase(sel) =>
                      IF ~ isEmpty(sel)
                      THEN command = [range |-> asRange(sel), text |-> ""]
                      ELSE IF p.column > 1
                      THEN OneStepLeft(command, p)
                      ELSE IF p.lineNumber > 1
                      THEN command = [range |-> Range(p.lineNumber - 1,
                                                      Len(In.model[p.lineNumber - 1]) + 1,
                                                      p.lineNumber, 1),
                                      text |-> ""]
                      ELSE command = Null

\* A caret at the start of line 2 and one at the start of the document: the
\* first joins the lines, the second does nothing.
C26_Witness ==
    /\ op = "deleteLeft"
    /\ ~ PairDelete
    /\ In.model = IndentDocument
    /\ In.selections = << Selection(2, 1, 2, 1), Selection(1, 1, 1, 1) >>
    /\ In.result.commands = << [range |-> Range(1, 6, 2, 1), text |-> ""], Null >>

\* A caret after a surrogate pair and a non-empty selection.
C26_WitnessStep ==
    /\ op = "deleteLeft"
    /\ ~ PairDelete
    /\ In.selections = << Selection(2, 5, 2, 5), Selection(2, 2, 1, 2) >>
    /\ In.result.commands = << [range |-> Range(2, 3, 2, 5), text |-> ""],
                                [range |-> Range(1, 2, 2, 2), text |-> ""] >>

\* The number of lines of the input document and the max column of a line.
LineCount == Len(In.model)

MaxColumn(lineNumber) == Len(In.model[lineNumber]) + 1

\* What a caret on the only line of the document cuts: the line's content.
ContentOnly(lineNumber) ==
    IF MaxColumn(lineNumber) = 1 THEN Null
    ELSE [range |-> Range(lineNumber, 1, lineNumber, MaxColumn(lineNumber)), text |-> ""]

\* What a caret on the last line of a document of several lines cuts: the
\* line with its leading newline.
WithLeadingNewline(lineNumber) ==
    [range |-> Range(lineNumber - 1, MaxColumn(lineNumber - 1),
                     lineNumber, MaxColumn(lineNumber)),
     text |-> ""]

\* The rules of cut that do not depend on the other selections hold for the
\* i-th selection in processing order.
CutsAsItsCase(i) ==
    LET sel == In.sorted[i]
        L == getPosition(sel).lineNumber
        command == In.result.commands[i]
    IN  IF ~ isEmpty(sel) THEN command = [range |-> asRange(sel), text |-> ""]
        ELSE IF ~ In.config.emptySelectionClipboard THEN command = Null
        ELSE IF L < LineCount THEN command = [range |-> Range(L, 1, L + 1, 1), text |-> ""]
        ELSE IF LineCount = 1 THEN command = ContentOnly(L)
        ELSE TRUE

\* The i-th selection in processing order is a caret on the last line of a
\* document of several lines, cut as a full line.
LastLineCaret(i) ==
    /\ isEmpty(In.sorted[i])
    /\ In.config.emptySelectionClipboard
    /\ LineCount > 1
    /\ getPosition(In.sorted[i]).lineNumber = LineCount

\* The full line cut before the i-th selection in processing order, if any,
\* ended on the last line: the nearest caret before it is on one of the last
\* two lines.
PreviousCutEndsOnLastLine(i) ==
    \E j \in 1..(i - 1) :
        /\ isEmpty(In.sorted[j])
        /\ \A k \in (j + 1)..(i - 1) : ~ isEmpty(In.sorted[k])
        /\ getPosition(In.sorted[j]).lineNumber >= LineCount - 1

\* C27 as stated: a non-empty selection is deleted as it is; a caret gives no
\* command when emptySelectionClipboard is off; when it is on, a caret on a
\* line L before the last deletes [L,1 -> L+1,1), a caret on the last line of
\* a document of several lines deletes from the end of the previous line to
\* the end of the last line, and a caret on the only line deletes the line's
\* content (no command if the line is empty).
C27_CutPerSelectionAlways ==
    op = "cut" =>
        /\ Len(In.result.commands) = Len(In.sorted)
        /\ \A i \in 1..Len(In.sorted) :
              /\ CutsAsItsCase(i)
              /\ LastLineCaret(i) =>
                    In.result.commands[i] = WithLeadingNewline(LineCount)

\* C27, amended: the same, except that a caret on the last line of a document
\* of several lines deletes only the line's content when the full line cut
\* before it already ended on that line.
C27_CutPerSelection ==
    op = "cut" =>
        /\ Len(In.result.commands) = Len(In.sorted)
        /\ \A i \in 1..Len(In.sorted) :
              /\ CutsAsItsCase(i)
              /\ LastLineCaret(i) =>
                    In.result.commands[i] =
                        IF PreviousCutEndsOnLastLine(i)
                        THEN ContentOnly(LineCount)
                        ELSE WithLeadingNewline(LineCount)

\* Caret on line 2 of three lines: line 2 goes with its trailing newline.
C27_Witness ==
    /\ op = "cut"
    /\ In.model = ThreeLineDocument
    /\ In.config.emptySelectionClipboard
    /\ In.selections = << Selection(2, 2, 2, 2) >>
    /\ In.result.commands = << [range |-> Range(2, 1, 3, 1), text |-> ""] >>

\* Two carets on the last line: the first takes the leading newline, the
\* second only the content.
C27_WitnessLastLine ==
    /\ op = "cut"
    /\ In.model = ThreeLineDocument
    /\ In.config.emptySelectionClipboard
    /\ In.selections = << Selection(3, 2, 3, 2), Selection(3, 1, 3, 1) >>
    /\ In.result.commands = << [range |-> Range(2, 4, 3, 2), text |-> ""],
                                [range |-> Range(3, 1, 3, 2), text |-> ""] >>

\* a comes before b in the order by start position, ties broken by end position.
StartThenEndOrdered(a, b) ==
    \/ isBefore(getStartPosition(a), getStartPosition(b))
    \/ /\ getStartPosition(a) = getStartPosition(b)
       /\ isBeforeOrEqual(getEndPosition(a), getEndPosition(b))

\* The sorted array holds the same selections as the input, each as often.
SameSelections(a, b) ==
    /\ Len(a) = Len(b)
    /\ \A x \in { a[k] : k \in 1..Len(a) } \cup { b[k] : k \in 1..Len(b) } :
          Cardinality({ k \in 1..Len(a) : a[k] = x })
              = Cardinality({ k \in 1..Len(b) : b[k] = x })

\* C28: for every list of selections the order in which cut processes them
\* is ascending by start position, ties broken by end position.
C28_SortedByStartThenEnd ==
    op = "cut" =>
        /\ SameSelections(In.sorted, In.selections)
        /\ \A i, j \in 1..Len(In.sorted) :
              i < j => StartThenEndOrdered(In.sorted[i], In.sorted[j])

\* The order of disjoint selections (touching allowed) is ascending.
C28_DisjointSorted ==
    (op = "cut" /\ \A i, j \in 1..Len(In.selections) :
                      i # j => \/ isBeforeOrEqual(getEndPosition(In.selections[i]),
                                                  getStartPosition(In.selections[j]))
                               \/ isBeforeOrEqual(getEndPosition(In.selections[j]),
                                                  getStartPosition(In.selections[i])))
        => \A i, j \in 1..Len(In.sorted) :
              i < j => isBeforeOrEqual(getStartPosition(In.sorted[i]),
                                       getStartPosition(In.sorted[j]))

\* Every selection of the input is a caret and no two are on the same line.
CaretsOnDistinctLines ==
    /\ \A i \in 1..Len(In.selections) : isEmpty(In.selections[i])
    /\ \A i, j \in 1..Len(In.selections) :
          i # j => getPosition(In.selections[i]).lineNumber
                     # getPosition(In.selections[j]).lineNumber

\* Two ranges have a piece of text in common.
RangesOverlap(a, b) ==
    /\ isBefore(getStartPosition(a), getEndPosition(b))
    /\ isBefore(getStartPosition(b), getEndPosition(a))

\* C29: with emptySelectionClipboard on, for carets on pairwise distinct
\* lines the delete ranges are pairwise non-overlapping; with a caret on the
\* second-to-last line and one on the last line, the last-line caret deletes
\* only its own line's content.
C29_NoDoubleDelete ==
    (op = "cut" /\ In.config.emptySelectionClipboard /\ CaretsOnDistinctLines) =>
        /\ \A i, j \in 1..Len(In.result.commands) :
              (i # j /\ In.result.commands[i] # Null /\ In.result.commands[j] # Null)
                  => ~ RangesOverlap(In.result.commands[i].range,
                                     In.result.commands[j].range)
        /\ \A i, j \in 1..Len(In.sorted) :
              (/\ LineCount > 1
               /\ getPosition(In.sorted[i]).lineNumber = LineCount - 1
               /\ getPosition(In.sorted[j]).lineNumber = LineCount)
                  => /\ In.result.commands[i]
                          = [range |-> Range(LineCount - 1, 1, LineCount, 1), text |-> ""]
                     /\ In.result.commands[j] = ContentOnly(LineCount)

\* Carets on lines 3 and 2 of three lines, given in that order: line 2 goes
\* with its newline, line 3 loses its content only.
C29_Witness ==
    /\ op = "cut"
    /\ In.model = ThreeLineDocument
    /\ In.config.emptySelectionClipboard
    /\ In.selections = << Selection(3, 2, 3, 2), Selection(2, 2, 2, 2) >>
    /\ In.result.commands = << [range |-> Range(2, 1, 3, 1), text |-> ""],
                                [range |-> Range(3, 1, 3, 2), text |-> ""] >>

\* C30: cut returns a result of type Other with shouldPushStackElementBefore
\* and shouldPushStackElementAfter both true, for every configuration and
\* list of selections.
C30_CutUndoBoundaries ==
    op = "cut" =>
        /\ In.result.type = "Other"
        /\ In.result.shouldPushStackElementBefore = TRUE
        /\ In.result.shouldPushStackElementAfter = TRUE

\* Two carets with emptySelectionClipboard off: every command is null.
C30_Witness ==
    /\ op = "cut"
    /\ ~ In.config.emptySelectionClipboard
    /\ Len(In.selections) = 2
    /\ In.result.commands = << Null, Null >>
    /\ In.result.type = "Other"
    /\ In.result.shouldPushStackElementBefore
    /\ In.result.shouldPushStackElementAfter

\* The view state with each of its three positions normalized on its own.
FullValidation(viewModel, viewState) ==
    LET sStartPosition == getStartPosition(viewState.selectionStart)
        sEndPosition == getEndPosition(viewState.selectionStart)
        validPosition == normalizePositionIn(viewModel, viewState.position)
        validSStartPosition == normalizePositionIn(viewModel, sStartPosition)
        validSEndPosition == normalizePositionIn(viewModel, sEndPosition)
    IN  SingleCursorState(
            fromPositions(validSStartPosition, validSEndPosition),
            viewState.selectionStartKind,
            viewState.selectionStartLeftoverVisibleColumns
                + sStartPosition.column - validSStartPosition.column,
            validPosition,
            viewState.leftoverVisibleColumns + viewState.position.column
                - validPosition.column)

\* The three positions of a view state are normalized already.
AllNormalized(viewModel, viewState) ==
    /\ normalizePositionIn(viewModel, viewState.position) = viewState.position
    /\ normalizePositionIn(viewModel, getStartPosition(viewState.selectionStart))
         = getStartPosition(viewState.selectionStart)
    /\ normalizePositionIn(viewModel, getEndPosition(viewState.selectionStart))
         = getEndPosition(viewState.selectionStart)

\* C31: _validateViewState with its one-entry cache gives what normalizing
\* each of the three positions on its own gives, and a view state whose
\* three positions are normalized comes back unchanged; on a view without
\* injected text it is the validation the cursors of the document fixture
\* go through.
C31_CacheIsFullValidation ==
    op = "validateViewState" =>
        /\ In.result = FullValidation(In.viewModel, In.viewState)
        /\ AllNormalized(In.viewModel, In.viewState) => In.result = In.viewState
        /\ In.viewModel = NoInjectedText => In.result = validateViewState(In.viewState)

\* Both cache entries are used on a position inside injected text: position
\* and selection start are (1,3), which moves to (1,4).
C31_Witness ==
    /\ op = "validateViewState"
    /\ In.viewModel = { Range(1, 1, 1, 4) }
    /\ In.viewState.position = Position(1, 3)
    /\ In.viewState.selectionStart = Range(1, 3, 1, 3)
    /\ In.result = SingleCursorState(Range(1, 4, 1, 4), "Simple", 0, Position(1, 4), 1)

\* No cache entry fits and the three positions move differently.
C31_WitnessNoCache ==
    /\ op = "validateViewState"
    /\ In.viewModel = { Range(1, 1, 1, 4) }
    /\ In.viewState.position = Position(2, 1)
    /\ In.viewState.selectionStart = Range(1, 2, 1, 3)
    /\ In.result = SingleCursorState(Range(1, 1, 1, 4), "Word", 2, Position(2, 1), 2)

\* C33: lastAddedCursorIndex is an index of the cursor list after any
\* sequence of setStates, killSecondaryCursors and normalize, and it is 0
\* whenever the primary cursor is the only one.
C33_LastAddedIndexValid ==
    /\ 0 <= lastAddedCursorIndex
    /\ lastAddedCursorIndex < Len(cursors)
    /\ Len(cursors) = 1 => lastAddedCursorIndex = 0

\* A normalize() that removed a cursor before the most recently added one
\* and left several cursors behind.
C33_Witness ==
    /\ op = "normalize"
    /\ \E k \in 1..Len(mergeLog) : mergeLog[k].looserIndex < mergeLog[k].lastAddedBefore
    /\ lastAddedCursorIndex > 0
    /\ Len(cursors) > 1

\* A normalize() that removed the most recently added cursor.
C33_WitnessLastAddedRemoved ==
    /\ op = "normalize"
    /\ \E k \in 1..Len(mergeLog) : mergeLog[k].looserIndex = mergeLog[k].lastAddedBefore

\* killSecondaryCursors() after the most recently added cursor was the last
\* of three.
C33_WitnessKill ==
    /\ op = "killSecondaryCursors"
    /\ disposed # {}
    /\ Len(cursors) = 1
    /\ lastAddedCursorIndex = 0

\* Page `layerIndex` holds more glyphs than the glyph storage buffer.
OverCapacity(layerIndex) == Len(atlas[layerIndex + 1].glyphs) > maximumGlyphCount

\* The glyph storage buffer of a layer holds the whole glyph table of the
\* page as it was at the version recorded for the layer.
WholeTableUploaded(view, layerIndex) ==
    LET version == view.atlasGpuTextureVersions[layerIndex + 1]
    IN  /\ version <= Len(atlas[layerIndex + 1].glyphs)
        /\ version <= maximumGlyphCount
        /\ view.glyphStorageBuffer[layerIndex + 1]
             = [k \in 1..(FloatsPerEntry * maximumGlyphCount) |->
                   IF (k - 1) \div FloatsPerEntry < version
                   THEN Glyph(((k - 1) \div FloatsPerEntry) + 1)[((k - 1) % FloatsPerEntry) + 1]
                   ELSE 0]

\* C32: _updateAtlas on a page that holds more glyphs than
\* maximumGlyphCount raises an error, writes nothing of that page to the
\* glyph storage buffer and does not advance the version recorded for it, so
\* no buffer ever holds a truncated table; when every page is within
\* capacity the recorded versions equal the pages' versions afterwards and a
\* second call writes nothing.
C32_CapacityFault ==
    [][ op' = "updateAtlas" =>
          /\ \A layerIndex \in 0..(Len(atlas) - 1) :
                /\ OverCapacity(layerIndex) =>
                      /\ arg'[1].error
                      /\ layerIndex \notin { arg'[1].writes[k] : k \in 1..Len(arg'[1].writes) }
                      /\ gpu'.glyphStorageBuffer[layerIndex + 1]
                           = gpu.glyphStorageBuffer[layerIndex + 1]
                      /\ gpu'.atlasGpuTextureVersions[layerIndex + 1]
                           = gpu.atlasGpuTextureVersions[layerIndex + 1]
                /\ WholeTableUploaded(gpu', layerIndex)
          /\ (\A layerIndex \in 0..(Len(atlas) - 1) : ~ OverCapacity(layerIndex)) =>
                /\ ~ arg'[1].error
                /\ \A layerIndex \in 0..(Len(atlas) - 1) :
                      gpu'.atlasGpuTextureVersions[layerIndex + 1]
                          = atlas[layerIndex + 1].version
                /\ updateAtlas(gpu', atlas').writes = << >>
                /\ updateAtlas(gpu', atlas').view = gpu'
    ]_vars

\* _updateAtlas threw on the second page, which holds one glyph too many,
\* after it had uploaded the first.
C32_Witness ==
    /\ op = "updateAtlas"
    /\ arg[1].error
    /\ arg[1].writes = << 0 >>
    /\ Len(atlas[1].glyphs) = maximumGlyphCount
    /\ Len(atlas[2].glyphs) = maximumGlyphCount + 1
    /\ gpu.atlasGpuTextureVersions[1] = atlas[1].version
    /\ gpu.atlasGpuTextureVersions[2] < atlas[2].version

\* _updateAtlas uploaded two full pages and has nothing left to do.
C32_WitnessUploaded ==
    /\ op = "updateAtlas"
    /\ ~ arg[1].error
    /\ arg[1].writes = << 0, 1 >>
    /\ \A layerIndex \in 0..1 :
          /\ Len(atlas[layerIndex + 1].glyphs) = maximumGlyphCount
          /\ gpu.atlasGpuTextureVersions[layerIndex + 1] = atlas[layerIndex + 1].version

\* An iteration of the loop of normalize() advanced the scan index.
Advanced ==
    /\ loop'.i = loop.i + 1
    /\ Len(loop'.sorted) = Len(loop.sorted)
    /\ Len(cursors') = Len(cursors)

\* An iteration of the loop of normalize() removed one cursor, not the
\* primary one, and stays at its scan index.
RemovedOne ==
    /\ loop'.i = loop.i
    /\ Len(loop'.sorted) = Len(loop.sorted) - 1
    /\ Len(cursors') = Len(cursors) - 1
    /\ Len(loop'.log) = Len(loop.log) + 1
    /\ loop'.log[Len(loop'.log)].looserIndex >= 1
    /\ cursors'[1].id = cursors[1].id

\* What is left to do for the loop of normalize(): it falls with every
\* iteration and the loop ends before it reaches 0.
Variant(st) == 2 * Len(st.sorted) - st.i

\* C34: every iteration of the loop of normalize() either advances the scan
\* index or removes one cursor, never the primary, from the sorted snapshot
\* and the collection, so what is left to do falls with every iteration; for
\* n cursors the loop has made at most n - 1 iterations at any time, and at
\* least one cursor is left.
C34_NormalizeTerminates ==
    [][ /\ (loop # Null /\ loop' # Null) =>
              /\ Advanced \/ RemovedOne
              /\ loop'.iterations = loop.iterations + 1
              /\ Variant(loop') < Variant(loop)
              /\ Variant(loop') >= 0
        /\ loop' # Null =>
              /\ loop'.iterations <= Len(pre'.cursors) - 1
              /\ Len(loop'.sorted) = Len(cursors')
              /\ Len(cursors') >= 1
              /\ loop'.iterations = Len(pre'.cursors) - 1 => ~ loopContinues(loop')
      ]_vars

\* normalize() ended after merging twice at the same scan index.
C34_Witness ==
    /\ op = "normalize"
    /\ loop = Null
    /\ Len(mergeLog) = 2
    /\ Len(pre.cursors) = 3
    /\ Len(cursors) = 1

\* The loop is running, has merged once and has a pair left to examine.
C34_WitnessRunning ==
    /\ op = "normalizing"
    /\ loop # Null
    /\ Len(loop.log) = 1
    /\ loopContinues(loop)


(***************************************************************************)
(* Tracking across the collection (Spec).                                  *)
(***************************************************************************)
\* Cursor k holds a tracked range that is registered in the document.
HoldsTrackedRange(k) ==
    /\ cursors[k].selTrackedRange # NullId
    /\ cursors[k].selTrackedRange \in DOMAIN trackedRanges

\* The collection is between stopTrackingSelections() and the next
\* startTrackingSelections(): only these two change the primary cursor's flag.
TrackingStopped == ~ cursors[1].trackSelection

\* C35 as stated: between stopTrackingSelections() and the next
\* startTrackingSelections() no cursor of the collection holds a tracked
\* range, cursors created by setStates in that interval included; after
\* startTrackingSelections() every cursor holds one.
C35_UniformTracking ==
    op # "dispose" =>
        /\ TrackingStopped =>
              /\ \A k \in 1..Len(cursors) : ~ HoldsTrackedRange(k)
              /\ DOMAIN trackedRanges = {}
        /\ ~ TrackingStopped => \A k \in 1..Len(cursors) : HoldsTrackedRange(k)

\* C35, amended: stopTrackingSelections() leaves no cursor with a tracked
\* range and startTrackingSelections() leaves every cursor with one; a cursor
\* holds a tracked range exactly when its own tracking flag is on; between
\* stopTrackingSelections() and the next startTrackingSelections() the
\* cursors that were in the collection stay without one, but a secondary
\* cursor created by setStates in that interval is constructed tracking and
\* holds the tracked range of its selection; once tracking is started every
\* cursor holds one.
C35_TrackingAfterStop ==
    [][ op' # "dispose" =>
          /\ \A k \in 1..Len(cursors') :
                HoldsTrackedRange(k)' <=> cursors'[k].trackSelection
          /\ op' = "stopTrackingSelections" =>
                /\ \A k \in 1..Len(cursors') : ~ HoldsTrackedRange(k)'
                /\ DOMAIN trackedRanges' = {}
          /\ ~ TrackingStopped' => \A k \in 1..Len(cursors') : HoldsTrackedRange(k)'
          /\ op' \notin {"startTrackingSelections", "stopTrackingSelections"} =>
                TrackingStopped' = TrackingStopped
          /\ (op' = "setStates" /\ TrackingStopped) =>
                /\ \A k \in 1..Len(cursors') :
                      IF k <= Len(cursors)
                      THEN cursors'[k].trackSelection = cursors[k].trackSelection
                      ELSE /\ cursors'[k].trackSelection
                           /\ HoldsTrackedRange(k)'
                           /\ trackedRanges'[cursors'[k].selTrackedRange]
                                 = asRange(selection(cursors'[k].modelState))
      ]_vars

\* After stopTrackingSelections(), setStates created a secondary cursor that
\* holds a tracked range while the primary cursor holds none.
C35_Witness ==
    /\ op = "setStates"
    /\ TrackingStopped
    /\ ~ HoldsTrackedRange(1)
    /\ Len(cursors) >= 2
    /\ HoldsTrackedRange(2)

\* startTrackingSelections() ran on a collection of several cursors; every
\* cursor holds a tracked range.
C35_WitnessStarted ==
    /\ op = "startTrackingSelections"
    /\ Len(cursors) >= 2
    /\ \A k \in 1..Len(cursors) : HoldsTrackedRange(k)


(***************************************************************************)
(* The two states of a cursor after setState (SpecCursor).                 *)
(***************************************************************************)
\* The view state and the model state of a cursor carry the same
\* selectionStartKind and the same leftover columns.
StatesAgree(c) ==
    /\ c.viewState.selectionStartKind = c.modelState.selectionStartKind
    /\ c.viewState.selectionStartLeftoverVisibleColumns
          = c.modelState.selectionStartLeftoverVisibleColumns
    /\ c.viewState.leftoverVisibleColumns = c.modelState.leftoverVisibleColumns

\* setState was handed a model state and a view state that differ in their
\* selectionStartKind and leftover columns.
SuppliedStatesDiffer(supplied) ==
    /\ supplied.modelState # Null
    /\ supplied.viewState # Null
    /\ supplied.modelState.selectionStartKind # supplied.viewState.selectionStartKind
    /\ supplied.modelState.leftoverVisibleColumns # supplied.viewState.leftoverVisibleColumns

\* C36: after every setState that supplies at least one state, the cursor's
\* view state and model state carry the same selectionStartKind and the same
\* leftover columns; when a model state is supplied, alone or with a view
\* state, the kind is the model state's and so are the leftover columns of
\* what validation left in place; setState(null, null) changes neither state
\* nor the tracked range.
C36_StatesAgree ==
    [][ /\ \A k \in 1..Len(cursors') : StatesAgree(cursors'[k])
        /\ (op' = "setState" /\ arg'[1].modelState # Null) =>
              LET supplied == arg'[1].modelState
                  stored == cursors'[1].modelState
              IN  /\ stored.selectionStartKind = supplied.selectionStartKind
                  /\ cursors'[1].viewState.selectionStartKind = supplied.selectionStartKind
                  /\ supplied.position = stored.position =>
                        /\ stored.leftoverVisibleColumns = supplied.leftoverVisibleColumns
                        /\ cursors'[1].viewState.leftoverVisibleColumns
                              = supplied.leftoverVisibleColumns
                  /\ equalsRange(supplied.selectionStart, stored.selectionStart) =>
                        /\ stored.selectionStartLeftoverVisibleColumns
                              = supplied.selectionStartLeftoverVisibleColumns
                        /\ cursors'[1].viewState.selectionStartLeftoverVisibleColumns
                              = supplied.selectionStartLeftoverVisibleColumns
        /\ op' = "setStateNull" =>
              /\ cursors' = cursors
              /\ trackedRanges' = trackedRanges
      ]_vars

\* setState stored a model state and a view state that were supplied with
\* different kinds and leftover columns: the view state carries the model
\* state's.
C36_Witness ==
    /\ op = "setState"
    /\ SuppliedStatesDiffer(arg[1])
    /\ arg[1].modelState.position = cursors[1].modelState.position
    /\ cursors[1].viewState.selectionStartKind = arg[1].modelState.selectionStartKind
    /\ cursors[1].viewState.leftoverVisibleColumns = arg[1].modelState.leftoverVisibleColumns
    /\ cursors[1].viewState.leftoverVisibleColumns # arg[1].viewState.leftoverVisibleColumns

\* setState(null, null) ran on a cursor that holds a selection and a tracked
\* range.
C36_WitnessNull ==
    /\ op = "setStateNull"
    /\ ~ isEmpty(selection(cursors[1].modelState))
    /\ cursors[1].selTrackedRange \in DOMAIN trackedRanges


(***************************************************************************)
(* What the selections of a collection cover (SpecNormalize).              *)
(***************************************************************************)
\* The positions of the document.
DocumentPositions ==
    { p \in [lineNumber : 1..getLineCount, column : 1..(MaxLineLength + 1)] :
          p.column <= getLineMaxColumn(p.lineNumber) }

\* The positions a selection covers: from its start to its end, both
\* included; a caret covers its own position.
CoveredBy(sel) ==
    { p \in DocumentPositions :
          /\ isBeforeOrEqual(getStartPosition(sel), p)
          /\ isBeforeOrEqual(p, getEndPosition(sel)) }

\* The positions the selections of a list of cursors cover.
Coverage(cs) == UNION { CoveredBy(selection(cs[k].modelState)) : k \in 1..Len(cs) }

\* C37: normalize() preserves coverage: the positions covered by the
\* cursors' selections are the same before and after; every merge replaces
\* two selections that share a position by the range that spans them, which
\* covers what the two covered and nothing else; the number of cursors never
\* increases.
C37_CoveragePreserved ==
    Normalized =>
        /\ Coverage(cursors) = Coverage(pre.cursors)
        /\ Len(cursors) <= Len(pre.cursors)
        /\ \A n \in 1..Len(mergeLog) :
              /\ CoveredBy(mergeLog[n].winnerSelection)
                    \cap CoveredBy(mergeLog[n].looserSelection) # {}
              /\ asRange(mergeLog[n].merged)
                    = plusRange(mergeLog[n].looserSelection, mergeLog[n].winnerSelection)
              /\ CoveredBy(mergeLog[n].merged)
                    = CoveredBy(mergeLog[n].winnerSelection)
                          \cup CoveredBy(mergeLog[n].looserSelection)

\* normalize() merged two overlapping selections, neither of which contains
\* the other, into their spanning range.
C37_Witness ==
    /\ Normalized
    /\ Len(mergeLog) = 1
    /\ Len(cursors) = Len(pre.cursors) - 1
    /\ CoveredBy(mergeLog[1].merged) # CoveredBy(mergeLog[1].winnerSelection)
    /\ CoveredBy(mergeLog[1].merged) # CoveredBy(mergeLog[1].looserSelection)

\* normalize() merged two of three cursors and left the third alone; part of
\* the document is not covered, before and after.
C37_WitnessPartial ==
    /\ Normalized
    /\ Len(pre.cursors) = 3
    /\ Len(cursors) = 2
    /\ Len(mergeLog) = 1
    /\ Coverage(cursors) # DocumentPositions
    /\ Cardinality(Coverage(cursors)) >= 3

==========================================================================
